---- MODULE Spec2Model ----
(***************************************************************************)
(* Verification model of conversa-relay: the per-chat dispatch queue, the  *)
(* terminal / handoff registry, the session pool and the outbox            *)
(* dispatcher.  Each component has its own specification (SpecQueue,       *)
(* SpecTerm, SpecPool, SpecOutbox) over the shared variables; a component  *)
(* that a specification does not exercise stays in its initial state.      *)
(***************************************************************************)
EXTENDS Integers, Sequences, FiniteSets, TLC

\* ------------------------------------------------------------------------
\* Bounds
\* ------------------------------------------------------------------------
MaxMsgs == 4          \* messages that arrive in one behaviour (all chats)

Chats == {"c1", "c2"}

VARIABLES
  \* --- MessageHandler (dispatch queue) ---
  pendingJobs,       \* chatId -> Job[]            (this.pendingJobs)
  processingQueue,   \* chatId -> boolean          (this.processingQueue)
  inbox,             \* chatId -> handleMessage calls awaiting getContact()
  nextMsg,           \* number of messages received so far
  runners,           \* chatId -> set of live runQueue activations
  enqueued,          \* chatId -> jobs in the order they were pushed
  started,           \* chatId -> jobs in the order they were popped
  threw,             \* jobs whose processOneMessage threw
  errReplied         \* jobs for which the "Hata: ..." reply was attempted

queueVars == <<pendingJobs, processingQueue, inbox, nextMsg, runners,
               enqueued, started, threw, errReplied>>

VARIABLES
  \* --- Outbox directories and OutboxDispatcher instances ---
  pendingDir,        \* files in pending/ (claimable *.json and *.processing.<pid>)
  processedDir,      \* files in processed/
  failedDir,         \* records in failed/
  writeSequence,     \* writeOutboxMessage's filename sequence
  disp,              \* dispatcher process -> its position in processPending
  sendLog,           \* calls of the transport sendMessage
  enoent             \* files for which some claiming rename got ENOENT

outboxVars == <<pendingDir, processedDir, failedDir, writeSequence, disp,
                sendLog, enoent>>

VARIABLES
  \* --- Terminal registry, orchestrator preference, resume stores, pool ---
  activeKey,         \* registry[owner].activeKey        (0: none, n: "t<n>")
  counter,           \* registry[owner].counter
  terminals,         \* registry[owner].sessions: key -> {orchestrator, stateData}
  prefs,             \* orchestratorManager.userPreferences[owner].orchestrator
  store,             \* per orchestrator kind: the owner's entry of the store file
  sessions,          \* SessionManager.sessions: the Map, in insertion order
  jobPc,             \* owner -> position of its queued job in processOneMessage
  jobSess,           \* the Session object the running job holds
  now,               \* Date.now(), in clock readings
  nextTok,           \* resume tokens issued by the agents so far
  lastHeld,          \* terminal key -> token a Session bound to it last held
  switched,          \* whether an orchestrator switch was handled so far
  freshFor           \* kind of the last switch not yet followed by a job or a
                     \* terminal command ("none" otherwise)

termVars == <<activeKey, counter, terminals, prefs, store, sessions, jobPc,
              jobSess, now, nextTok, lastHeld, switched, freshFor>>

VARIABLES
  \* --- MessageHandler.systemNotesByChat of one chat and its queued job ---
  systemNotes,       \* systemNotesByChat.get(chatId): the queued notes
  noteSeq,           \* notes added so far (a note's id is its number)
  notePc,            \* position of the chat's queued job in processOneMessage
  prompt,            \* the notes in the prompt of the job being executed
  promptSeq,         \* prompts built so far
  owed,              \* handoff notes added since the last prompt was built
  lastDelivered      \* highest note id that a prompt contained so far

noteVars == <<systemNotes, noteSeq, notePc, prompt, promptSeq, owed, lastDelivered>>

VARIABLES
  \* --- BackgroundTaskManager and the agent processes of its tasks ---
  tasks,             \* this.tasks: task id -> {owner, status} ("none": no entry)
  stored,            \* background-tasks.json: task id -> persisted status
  proc,              \* task id -> state of the spawned agent process
  handle,            \* task id -> whether task.process is set
  finished,          \* task id -> the `finished` flag of the task's finalize
  pendingNotify,     \* task id -> finalize calls waiting in `await saveTasks()`
  completions,       \* task id -> invocations of onComplete
  errored,           \* task id -> whether the process emitted 'error'
  timerArmed,        \* task id -> whether the timeout timer is still to fire
  nextTask,          \* task ids generated so far
  lastStart,         \* owner and outcome of the last startBackgroundTask
  restarts           \* restarts of the relay process so far

taskVars == <<tasks, stored, proc, handle, finished, pendingNotify, completions,
              errored, timerArmed, nextTask, lastStart, restarts>>

VARIABLES
  \* --- the foreground reply of a job and the outbox activity of its request ---
  fgPc,              \* position of processOneMessage around session.execute
  fgReq,             \* session.lastExecutionMeta.requestId of the execution
  fgPlan,            \* what became of a background task plan in the response
  fgReply,           \* what processOneMessage returned for the last job
  jobsRun,           \* foreground executions started so far
  reqOf              \* envelope id -> requestId the envelope was written with

replyVars == <<fgPc, fgReq, fgPlan, fgReply, jobsRun, reqOf>>

VARIABLES
  \* --- one Session object and the agent processes of its runs ---
  sState,            \* this.state
  procRef,           \* this.process: the run whose process it refers to, 0 for null
  runProc,           \* run -> state of the process spawned by that run
  runTimer,          \* run -> whether the run's setTimeout is still to fire
  runResult,         \* run -> how the run's promise was resolved
  execActive,        \* whether a call of execute is in progress
  nRuns,             \* runs (runCodex calls) started so far
  tornDown           \* whether kill() was called on the Session

execVars == <<sState, procRef, runProc, runTimer, runResult, execActive, nRuns, tornDown>>

VARIABLES
  \* --- terminal commands of one owner, handled outside the queue ---
  inFlight,          \* slot -> command suspended in `await this.snapshotActiveSession()`
  cmdReply           \* what the last `!!tdelete` command answered

regVars == <<inFlight, cmdReply>>

VARIABLES
  \* --- calls of writeOutboxMessage with their payload ---
  wCall              \* payload, fallback chat id and outcome of the last call

writeVars == <<wCall>>

VARIABLES
  \* --- file names writeOutboxMessage assigns in one process ---
  clock,             \* Date.now() of the process, in milliseconds
  fileSeq,           \* the module's writeSequence as the file name uses it
  written            \* <ts, seq> of the names assigned so far, in write order

nameVars == <<clock, fileSeq, written>>

VARIABLES
  \* --- one call of Session.execute after another, run by run ---
  flow               \* the Session objects of one owner and the execute in progress

vars == <<queueVars, outboxVars, termVars, noteVars, taskVars, replyVars, execVars,
          regVars, writeVars, nameVars, flow>>

\* ------------------------------------------------------------------------
\* Dispatch queue (MessageHandler.handleMessage / runQueue)
\* ------------------------------------------------------------------------

\* queue.shift(): the job taken and the queue left behind
QueueShiftLast(q) == [job |-> q[Len(q)], rest |-> SubSeq(q, 1, Len(q) - 1)]
QueueShift(q) == [job |-> Head(q), rest |-> Tail(q)]

\* this.processingQueue.get(from): the flag of the chat the message is from
ProcessingFlagShared(c) == \E d \in Chats : processingQueue[d]
ProcessingFlag(c) == processingQueue[c]

\* handleMessage: `if (this.processingQueue.get(from)) return;`
ShouldStartRunAlways(c) == TRUE
ShouldStartRun(c) == ~ProcessingFlag(c)

\* runQueue: where a runner goes when processOneMessage throws
JobErrorPcAbort == "abort"
JobErrorPc == "errorReply"

\* handleMessage up to `await message.getContact()`
HandleMessageStart(c) ==
  /\ nextMsg < MaxMsgs
  /\ nextMsg' = nextMsg + 1
  /\ inbox' = [inbox EXCEPT ![c] = @ \cup {nextMsg + 1}]
  /\ UNCHANGED <<pendingJobs, processingQueue, runners, enqueued, started,
                 threw, errReplied>>

\* handleMessage after getContact(): push the job; start runQueue unless a
\* run is active.  runQueue runs synchronously up to its first await, i.e.
\* it pops the head job and enters processOneMessage.
HandleMessageEnqueue(c, m) ==
  /\ m \in inbox[c]
  /\ inbox' = [inbox EXCEPT ![c] = @ \ {m}]
  /\ enqueued' = [enqueued EXCEPT ![c] = Append(@, m)]
  /\ LET q == Append(pendingJobs[c], m) IN
       IF ShouldStartRun(c)
       THEN LET s == QueueShift(q) IN
              /\ processingQueue' = [processingQueue EXCEPT ![c] = TRUE]
              /\ pendingJobs' = [pendingJobs EXCEPT ![c] = s.rest]
              /\ runners' = [runners EXCEPT
                               ![c] = @ \cup {[job |-> s.job, pc |-> "process"]}]
              /\ started' = [started EXCEPT ![c] = Append(@, s.job)]
       ELSE /\ pendingJobs' = [pendingJobs EXCEPT ![c] = q]
            /\ UNCHANGED <<processingQueue, runners, started>>
  /\ UNCHANGED <<nextMsg, threw, errReplied>>

\* The tail of one loop iteration: `while (queue.length) { job = shift() ...`
\* and, when the queue is empty, `finally { processingQueue.set(chatId,false) }`
RunQueueLoop(c, r) ==
  IF Len(pendingJobs[c]) > 0
  THEN LET s == QueueShift(pendingJobs[c]) IN
         /\ pendingJobs' = [pendingJobs EXCEPT ![c] = s.rest]
         /\ runners' = [runners EXCEPT
                          ![c] = (@ \ {r}) \cup {[job |-> s.job, pc |-> "process"]}]
         /\ started' = [started EXCEPT ![c] = Append(@, s.job)]
         /\ UNCHANGED processingQueue
  ELSE /\ runners' = [runners EXCEPT ![c] = @ \ {r}]
       /\ processingQueue' = [processingQueue EXCEPT ![c] = FALSE]
       /\ UNCHANGED <<pendingJobs, started>>

\* processOneMessage returned a reply text: the runner awaits replyToMessage
\* (or the outbox write) for it.
JobReturns(c, r) ==
  /\ r \in runners[c] /\ r.pc = "process"
  /\ runners' = [runners EXCEPT ![c] = (@ \ {r}) \cup {[r EXCEPT !.pc = "reply"]}]
  /\ UNCHANGED <<pendingJobs, processingQueue, inbox, nextMsg, enqueued,
                 started, threw, errReplied>>

\* processOneMessage returned NO_RESPONSE: `continue` with no await
JobReturnsNoResponse(c, r) ==
  /\ r \in runners[c] /\ r.pc = "process"
  /\ RunQueueLoop(c, r)
  /\ UNCHANGED <<inbox, nextMsg, enqueued, threw, errReplied>>

\* processOneMessage threw: `catch (e)` inside the loop
JobThrows(c, r) ==
  /\ r \in runners[c] /\ r.pc = "process"
  /\ threw' = threw \cup {r.job}
  /\ IF JobErrorPc = "errorReply"
     THEN /\ runners' = [runners EXCEPT
                           ![c] = (@ \ {r}) \cup {[r EXCEPT !.pc = "errorReply"]}]
          /\ UNCHANGED processingQueue
     ELSE /\ runners' = [runners EXCEPT ![c] = @ \ {r}]
          /\ processingQueue' = [processingQueue EXCEPT ![c] = FALSE]
  /\ UNCHANGED <<pendingJobs, inbox, nextMsg, enqueued, started, errReplied>>

\* await replyToMessage(job.message, ...) settled (delivered, or failed and
\* logged by the inner catch); the loop goes on.
ReplyHandled(c, r) ==
  /\ r \in runners[c] /\ r.pc \in {"reply", "errorReply"}
  /\ errReplied' = IF r.pc = "errorReply" THEN errReplied \cup {r.job} ELSE errReplied
  /\ RunQueueLoop(c, r)
  /\ UNCHANGED <<inbox, nextMsg, enqueued, threw>>

QueueNext ==
  \/ \E c \in Chats : HandleMessageStart(c)
  \/ \E c \in Chats : \E m \in (1..MaxMsgs) : HandleMessageEnqueue(c, m)
  \/ \E c \in Chats : \E r \in runners[c] : JobReturns(c, r)
  \/ \E c \in Chats : \E r \in runners[c] : JobReturnsNoResponse(c, r)
  \/ \E c \in Chats : \E r \in runners[c] : JobThrows(c, r)
  \/ \E c \in Chats : \E r \in runners[c] : ReplyHandled(c, r)

\* ------------------------------------------------------------------------
\* Outbox store and OutboxDispatcher (processPending / processFile)
\* ------------------------------------------------------------------------
MaxWrites == 1        \* envelopes written by producers in one behaviour

maxRetries == 1       \* retry bound the dispatcher is configured with (AI_OUTBOX_MAX_RETRIES)

Dispatchers == {"p1", "p2"}     \* dispatcher processes (distinct pids)
NoFile == [name |-> 0]
NoError == "none"               \* no error caught in the current processFile

\* A file of pending/: `holder` is "" for a claimable <name>.json and the
\* pid for <name>.json.processing.<pid>.
PendingFile(name, id, attempt, valid, holder) ==
  [name |-> name, id |-> id, attempt |-> attempt, valid |-> valid, holder |-> holder]

Claimable == {f \in pendingDir : f.holder = ""}

\* names.sort(): names are <epochMs>-<seq5>-..., modelled by the sequence number
RECURSIVE SortNames(_)
SortNames(S) ==
  IF S = {} THEN <<>>
  ELSE LET m == CHOOSE x \in S : \A y \in S : x <= y
       IN <<m>> \o SortNames(S \ {m})

\* processFile: fs.rename(sourcePath, processingPath) succeeds iff the source
\* is still there; ENOENT otherwise
RenameSucceedsAlways(name) == TRUE
RenameSucceeds(name) == \E f \in Claimable : f.name = name

\* moveToFailed: `error: error?.message || String(error)`; String(error) of an
\* Error without a message is "Error"
ErrorText(message) == IF message # "" THEN message ELSE "Error"

\* retryOrFail: `attempt <= this.maxRetries` with attempt = meta.attempt + 1
RetryDecisionStrict(metaAttempt) ==
  IF metaAttempt + 1 < maxRetries THEN "retryWrite" ELSE "failWrite"
RetryDecision(metaAttempt) ==
  IF metaAttempt + 1 <= maxRetries THEN "retryWrite" ELSE "failWrite"

\* the for-loop of processPending moves on to the next listed file
Advance(d) ==
  LET rest == Tail(disp[d].files) IN
    [pc |-> IF Len(rest) = 0 THEN "idle" ELSE "claim", files |-> rest, cur |-> NoFile,
     err |-> NoError]

\* writeOutboxMessage by a producer (foreground pipeline, background task or
\* agent script): temp file, then rename to <name>.json.  A producer outside
\* this code base may also drop a file that does not parse (valid = FALSE).
WriteOutboxMessage(valid) ==
  /\ writeSequence < MaxWrites
  /\ writeSequence' = writeSequence + 1
  /\ pendingDir' = pendingDir \cup
       {PendingFile(writeSequence + 1, writeSequence + 1, 0, valid, "")}
  /\ UNCHANGED <<processedDir, failedDir, disp, sendLog, enoent>>

\* processPending: readdir, filter *.json, sort
ProcessPending(d) ==
  /\ disp[d].pc = "idle"
  /\ Claimable # {}
  /\ disp' = [disp EXCEPT ![d] = [pc |-> "claim",
                                   files |-> SortNames({f.name : f \in Claimable}),
                                   cur |-> NoFile, err |-> NoError]]
  /\ UNCHANGED <<pendingDir, processedDir, failedDir, writeSequence, sendLog, enoent>>

\* processFile: a file that does not parse or normalize goes to
\* moveToFailed('parse') and returns; any other goes on to sendMessage
AfterParseSendAnyway(valid) == "send"
AfterParse(valid) == IF valid THEN "send" ELSE "failWrite"

\* processFile: the claiming rename, then readFile + JSON.parse +
\* normalizeOutboxMessage of the file now held under the processing name
ClaimFile(d) ==
  /\ disp[d].pc = "claim"
  /\ LET name == Head(disp[d].files) IN
       IF RenameSucceeds(name)
       THEN IF \E f \in Claimable : f.name = name
            THEN LET f == CHOOSE f \in Claimable : f.name = name IN
                   /\ pendingDir' = (pendingDir \ {f}) \cup {[f EXCEPT !.holder = d]}
                   /\ disp' = [disp EXCEPT ![d].pc = AfterParse(f.valid),
                                           ![d].cur = [f EXCEPT !.holder = d],
                                           ![d].err = IF f.valid THEN NoError
                                                      ELSE ErrorText("parse")]
                   /\ UNCHANGED enoent
            ELSE \* not claimed, yet carried on: readFile of the processing
                 \* path fails and the catch routes to moveToFailed('parse')
                 /\ disp' = [disp EXCEPT ![d].pc = "failWrite",
                                         ![d].cur = PendingFile(name, 0, 0, FALSE, d),
                                         ![d].err = ErrorText("ENOENT")]
                 /\ enoent' = enoent \cup {name}
                 /\ UNCHANGED pendingDir
       ELSE /\ disp' = [disp EXCEPT ![d] = Advance(d)]
            /\ enoent' = enoent \cup {name}
            /\ UNCHANGED pendingDir
  /\ UNCHANGED <<processedDir, failedDir, writeSequence, sendLog>>

\* processFile: await this.sendMessage(...) resolves (ok) or rejects
SendMessage(d, ok) ==
  /\ disp[d].pc = "send"
  /\ sendLog' = sendLog \cup
       {[name |-> disp[d].cur.name, id |-> disp[d].cur.id, by |-> d, ok |-> ok]}
  /\ IF ok
     THEN disp' = [disp EXCEPT ![d].pc = "mark"]
     ELSE \E m \in ({"", "detached"}) :
            disp' = [disp EXCEPT ![d].pc = RetryDecision(disp[d].cur.attempt),
                                 ![d].err = ErrorText(m)]
  /\ UNCHANGED <<pendingDir, processedDir, failedDir, writeSequence, enoent>>

\* markProcessed: rename the processing file into processed/; then
\* `await this.onDelivered(envelope)` returns (cbOk) or throws into the same
\* catch as a failed send
MarkProcessed(d, cbOk) ==
  /\ disp[d].pc = "mark"
  /\ pendingDir' = pendingDir \ {disp[d].cur}
  /\ processedDir' = processedDir \cup {[name |-> disp[d].cur.name, id |-> disp[d].cur.id]}
  /\ disp' = [disp EXCEPT ![d] = IF cbOk THEN Advance(d)
                                  ELSE [@ EXCEPT !.pc = RetryDecision(disp[d].cur.attempt),
                                                 !.err = ErrorText("callback")]]
  /\ UNCHANGED <<failedDir, writeSequence, sendLog, enoent>>

\* retryOrFail: writeOutboxMessage(retryPayload) puts a copy with
\* meta.attempt + 1 under a new name into pending/
RetryWrite(d) ==
  /\ disp[d].pc = "retryWrite"
  /\ writeSequence' = writeSequence + 1
  /\ pendingDir' = pendingDir \cup
       {PendingFile(writeSequence + 1, disp[d].cur.id, disp[d].cur.attempt + 1, TRUE, "")}
  /\ disp' = [disp EXCEPT ![d].pc = "retryUnlink"]
  /\ UNCHANGED <<processedDir, failedDir, sendLog, enoent>>

\* retryOrFail: fs.unlink(processingPath).catch(() => {})
RetryUnlink(d) ==
  /\ disp[d].pc = "retryUnlink"
  /\ pendingDir' = pendingDir \ {disp[d].cur}
  /\ disp' = [disp EXCEPT ![d] = Advance(d)]
  /\ UNCHANGED <<processedDir, failedDir, writeSequence, sendLog, enoent>>

\* moveToFailed: fs.writeFile(failedPath, ...)
FailWrite(d) ==
  /\ disp[d].pc = "failWrite"
  /\ failedDir' = failedDir \cup
       {[name |-> disp[d].cur.name, id |-> disp[d].cur.id, by |-> d,
         reason |-> IF disp[d].cur.valid THEN "send" ELSE "parse",
         error |-> disp[d].err]}
  /\ disp' = [disp EXCEPT ![d].pc = "failUnlink"]
  /\ UNCHANGED <<pendingDir, processedDir, writeSequence, sendLog, enoent>>

\* moveToFailed: fs.unlink(processingPath).catch(() => {}), then onFailed
FailUnlink(d) ==
  /\ disp[d].pc = "failUnlink"
  /\ pendingDir' = pendingDir \ {disp[d].cur}
  /\ disp' = [disp EXCEPT ![d] = Advance(d)]
  /\ UNCHANGED <<processedDir, failedDir, writeSequence, sendLog, enoent>>

OutboxNext ==
  \/ \E v \in BOOLEAN : WriteOutboxMessage(v)
  \/ \E d \in Dispatchers : ProcessPending(d)
  \/ \E d \in Dispatchers : ClaimFile(d)
  \/ \E d \in Dispatchers : \E ok \in BOOLEAN : SendMessage(d, ok)
  \/ \E d \in Dispatchers : \E cbOk \in BOOLEAN : MarkProcessed(d, cbOk)
  \/ \E d \in Dispatchers : RetryWrite(d)
  \/ \E d \in Dispatchers : RetryUnlink(d)
  \/ \E d \in Dispatchers : FailWrite(d)
  \/ \E d \in Dispatchers : FailUnlink(d)

\* ------------------------------------------------------------------------
\* Session pool, resume stores and the terminal registry
\* (SessionManager, ClaudeProcess / CodexProcess, TerminalHandler,
\* SwitchHandler, MessageHandler.processOneMessage)
\* ------------------------------------------------------------------------
MaxTerminals == 2     \* terminals an owner creates in one behaviour
MaxTokens == 1        \* resume tokens the agents issue in one behaviour
MaxTime == 2          \* clock readings (Date.now()) in one behaviour
maxSessions == 2      \* pool size the SessionManager is constructed with (MAX_SESSIONS)
timeoutMinutes == 1   \* inactivity bound of the sweep (SESSION_TIMEOUT), in clock readings

Owners == 1..(maxSessions + 1)  \* chats that ask the pool for a session
TermOwner == 1                  \* the owner whose terminals are followed
Kinds == {"claude", "codex"}
Keys == 1..MaxTerminals

\* A resume token (Claude session id, Codex thread id): the n-th id an agent
\* issued, tagged with the terminal key of the Session it was issued to
NoToken == [n |-> 0, term |-> 0]

NoState == [fmt |-> "none", tok |-> NoToken]
NoTerm == [orchestrator |-> "none", stateData |-> NoState]
NoSession == [state |-> "none"]

\* new ClaudeProcess / CodexProcess (id, owner) as createSession leaves it
NewSession(o, kind, now0) ==
  [owner |-> o, orchestratorType |-> kind, state |-> "idle", terminalKey |-> 0,
   token |-> NoToken, loaded |-> FALSE, resumed |-> NoToken,
   lastActivity |-> now0]

\* SessionManager.sessions is a Map: a sequence of Sessions in insertion order
HasSession(pool, o) == \E i \in 1..Len(pool) : pool[i].owner = o

GetSession(pool, o) ==
  IF HasSession(pool, o)
  THEN pool[CHOOSE i \in 1..Len(pool) : pool[i].owner = o]
  ELSE NoSession

\* sessions.set(owner, session)
SetSession(pool, sess) ==
  IF HasSession(pool, sess.owner)
  THEN [i \in 1..Len(pool) |-> IF pool[i].owner = sess.owner THEN sess ELSE pool[i]]
  ELSE Append(pool, sess)

\* SessionManager.endSession: session.kill(); sessions.delete(owner)
\* sessions.delete(owner)
EndSession(pool, o) == (SelectSeq(pool, LAMBDA x : x.owner # o))

\* loadSessionState / loadThreadState: claude reads entry.sessionId, codex
\* reads entry.id, so an entry written in the other format yields no token
LoadToken(kind, entry) == IF entry.fmt = kind THEN entry.tok ELSE NoToken

HasTerminal(terms, k) == k \in Keys /\ terms[k] # NoTerm

\* TerminalHandler.snapshotActiveSession: copy the store entry of the active
\* terminal's orchestrator into the active terminal
SnapshotActiveSession(terms, st, active) ==
  IF HasTerminal(terms, active) /\ st[terms[active].orchestrator] # NoState
  THEN [terms EXCEPT ![active].stateData = st[terms[active].orchestrator]]
  ELSE terms

\* TerminalHandler.writeStoreFile: data[owner] = stateData, or delete
WriteStoreFile(st, kind, stateData) == [st EXCEPT ![kind] = stateData]

\* The Session object a running job holds once the owner's pool entry is
\* ended under it: the job keeps the killed object.
Detach(pool) ==
  IF jobPc[TermOwner] = "running" /\ jobSess = NoSession /\ HasSession(sessions, TermOwner)
     /\ ~HasSession(pool, TermOwner)
  \* the Session object after kill()
  THEN ([(GetSession(sessions, TermOwner)) EXCEPT !.state = "killed"])
  ELSE jobSess

\* TerminalHandler.handleNew: the full effect of `!!new [kind]`
HandleNew(arg) ==
  LET snap == SnapshotActiveSession(terminals, store, activeKey)
      target == IF arg = "" THEN prefs ELSE arg
      key == counter + 1
  IN [terminals |-> [snap EXCEPT ![key] = [orchestrator |-> target, stateData |-> NoState]],
      activeKey |-> key,
      counter |-> key,
      prefs |-> target,
      sessions |-> sessions,
      store |-> store]

\* TerminalHandler.handleChange: the full effect of `!!tchange <key>`
HandleChangeEager(key) ==
  LET snap == SnapshotActiveSession(terminals, store, activeKey)
  IN [terminals |-> snap,
      activeKey |-> key,
      counter |-> counter,
      prefs |-> snap[key].orchestrator,
      sessions |-> EndSession(sessions, TermOwner),
      store |-> WriteStoreFile(store, snap[key].orchestrator, snap[key].stateData)]
HandleChange(key) ==
  LET snap == SnapshotActiveSession(terminals, store, activeKey)
  IN [terminals |-> snap,
      activeKey |-> key,
      counter |-> counter,
      prefs |-> snap[key].orchestrator,
      sessions |-> sessions,
      store |-> store]

\* `!!new [kind]` through the queue bypass of handleMessage
CmdNew(arg) ==
  /\ counter < MaxTerminals
  /\ LET r == HandleNew(arg) IN
       /\ terminals' = r.terminals /\ activeKey' = r.activeKey
       /\ counter' = r.counter /\ prefs' = r.prefs
       /\ sessions' = r.sessions /\ store' = r.store
  /\ freshFor' = "none"
  /\ UNCHANGED <<jobPc, jobSess, now, nextTok, lastHeld, switched>>

\* `!!tchange <key>` through the queue bypass (an unknown key or the active
\* key only produces a reply)
CmdChange(key) ==
  /\ HasTerminal(terminals, key)
  /\ key # activeKey
  /\ LET r == HandleChange(key) IN
       /\ terminals' = r.terminals /\ activeKey' = r.activeKey
       /\ counter' = r.counter /\ prefs' = r.prefs
       /\ jobSess' = Detach(r.sessions)
       /\ sessions' = r.sessions /\ store' = r.store
  /\ freshFor' = "none"
  /\ UNCHANGED <<jobPc, now, nextTok, lastHeld, switched>>

\* `!!switch <kind>` / `!!switch` through the queue bypass:
\* processOneMessage snapshots the active terminal, SwitchHandler sets the
\* preference and performSwitch ends the session and clears the new
\* orchestrator's stored state
CmdSwitch(to) ==
  /\ to # prefs
  /\ terminals' = SnapshotActiveSession(terminals, store, activeKey)
  /\ prefs' = to
  /\ jobSess' = Detach(EndSession(sessions, TermOwner))
  /\ sessions' = EndSession(sessions, TermOwner)
  /\ store' = [store EXCEPT ![to] = NoState]
  /\ switched' = TRUE
  /\ freshFor' = to
  /\ UNCHANGED <<activeKey, counter, jobPc, now, nextTok, lastHeld>>

\* TerminalHandler.ensureCorrectTerminal: registry, store and pool after
\* the reconciliation at the start of a queued job
EnsureCorrectTerminal ==
  LET sess == GetSession(sessions, TermOwner)
      same == [terminals |-> terminals, store |-> store, sessions |-> sessions]
  IN IF activeKey = 0 THEN same
     ELSE IF sess = NoSession
       THEN IF HasTerminal(terminals, activeKey)
            THEN [same EXCEPT !.store = WriteStoreFile(store,
                                  terminals[activeKey].orchestrator,
                                  terminals[activeKey].stateData)]
            ELSE same
     ELSE IF sess.terminalKey = activeKey THEN same
     ELSE LET oldKey == sess.terminalKey
              oldState == store[sess.orchestratorType]
              terms == IF HasTerminal(terminals, oldKey) /\ oldState # NoState
                       THEN [terminals EXCEPT ![oldKey].stateData = oldState]
                       ELSE terminals
          IN [terminals |-> terms,
              store |-> IF HasTerminal(terms, activeKey)
                        THEN WriteStoreFile(store, terms[activeKey].orchestrator,
                                            terms[activeKey].stateData)
                        ELSE store,
              sessions |-> EndSession(sessions, TermOwner)]

\* A queued job of the owner starts: ensureCorrectTerminal, getSession or
\* createSession with the terminal key of the active label, execute() up to
\* the spawn of the agent.  (One owner alone never fills the pool.)
JobBegin ==
  /\ jobPc[TermOwner] = "idle"
  /\ LET r == EnsureCorrectTerminal
         sess == IF HasSession(r.sessions, TermOwner)
                 THEN GetSession(r.sessions, TermOwner)
                 ELSE [NewSession(TermOwner, prefs, now)
                         \* TerminalHandler.getActiveLabel(owner)?.key || null
                         EXCEPT !.terminalKey =
                           IF HasTerminal(r.terminals, activeKey) THEN activeKey ELSE 0]
         \* execute(): lastActivity, state = executing, load the stored token once
         tok == IF sess.loaded THEN sess.token
                ELSE LoadToken(sess.orchestratorType, r.store[sess.orchestratorType])
         run == [sess EXCEPT !.state = "executing", !.lastActivity = now,
                             !.token = tok, !.loaded = TRUE,
                             !.resumed = IF sess.loaded THEN sess.resumed ELSE tok]
     IN /\ terminals' = r.terminals
        /\ store' = r.store
        /\ sessions' = SetSession(r.sessions, run)
        /\ lastHeld' = IF run.token # NoToken
                        THEN [lastHeld EXCEPT ![run.terminalKey] = run.token]
                        ELSE lastHeld
  /\ jobPc' = [jobPc EXCEPT ![TermOwner] = "running"]
  /\ jobSess' = NoSession
  /\ freshFor' = "none"
  /\ UNCHANGED <<activeKey, counter, prefs, now, nextTok, switched>>

\* the Session object the running job executes on
RunningSession == IF jobSess # NoSession THEN jobSess ELSE GetSession(sessions, TermOwner)

\* The agent process of the running job ends (also after a kill): finish()
\* runs, execute() resolves and processOneMessage calls autoSave.  `emit`
\* is "none" (no id reported), "same" (the resumed id) or "new".
JobEnd(emit) ==
  /\ jobPc[TermOwner] = "running"
  /\ emit = "new" => nextTok < MaxTokens
  /\ emit = "same" => RunningSession.token # NoToken
  /\ LET sess == RunningSession
         emitted == CASE emit = "none" -> NoToken
                      [] emit = "same" -> sess.token
                      [] emit = "new" -> [n |-> nextTok + 1, term |-> sess.terminalKey]
         \* finish(): state = idle; a session id reported by the run is kept and
         \* saved (claude: always, codex: only when the Session had none)
         done == (LET take == emitted # NoToken
                              /\ (sess.orchestratorType = "claude" \/ sess.token = NoToken)
                  IN [sess EXCEPT !.state = "idle", !.token = IF take THEN emitted ELSE @])
         saved == \/ done.token # sess.token
                  \/ emitted # NoToken /\ sess.orchestratorType = "claude"
         st == IF saved THEN [store EXCEPT ![sess.orchestratorType] =
                                 \* saveSessionState / saveThreadState: the entry written for the owner
                                 \* (claude: {sessionId}, codex: {id, primed})
                                 [fmt |-> sess.orchestratorType, tok |-> done.token]]
               ELSE store
     IN /\ store' = st
        \* TerminalHandler.autoSave(owner) as processOneMessage calls it
        /\ terminals' =
             IF HasTerminal(terminals, activeKey)
                /\ st[terminals[activeKey].orchestrator] # NoState
             THEN [terminals EXCEPT
                     ![activeKey].stateData = st[terminals[activeKey].orchestrator]]
             ELSE terminals
        /\ sessions' = IF jobSess = NoSession THEN SetSession(sessions, done)
                        ELSE sessions
        /\ nextTok' = IF emit = "new" THEN nextTok + 1 ELSE nextTok
        /\ lastHeld' = IF done.token # NoToken
                        THEN [lastHeld EXCEPT ![sess.terminalKey] = done.token]
                        ELSE lastHeld
  /\ jobPc' = [jobPc EXCEPT ![TermOwner] = "idle"]
  /\ jobSess' = NoSession
  /\ UNCHANGED <<activeKey, counter, prefs, now, switched, freshFor>>

\* The owner's idle session leaves the pool: createSession of another chat
\* at capacity evicts it, or cleanupTimedOutSessions sweeps it
IdleSessionRemoved ==
  /\ HasSession(sessions, TermOwner)
  /\ GetSession(sessions, TermOwner).state = "idle"
  /\ sessions' = EndSession(sessions, TermOwner)
  /\ UNCHANGED <<activeKey, counter, terminals, prefs, store, jobPc, jobSess,
                 now, nextTok, lastHeld, switched, freshFor>>

TermNext ==
  \/ \E arg \in Kinds \cup {""} : CmdNew(arg)
  \/ \E key \in Keys : CmdChange(key)
  \/ \E to \in Kinds : CmdSwitch(to)
  \/ JobBegin
  \/ \E emit \in {"none", "same", "new"} : JobEnd(emit)
  \/ IdleSessionRemoved

\* ------------------------------------------------------------------------
\* The session pool under several owners (SessionManager)
\* ------------------------------------------------------------------------
poolFrame == <<activeKey, counter, terminals, prefs, store, jobSess,
               nextTok, lastHeld, switched, freshFor>>

RECURSIVE OldestFrom(_, _, _, _)
\* the loop of findOldestIdleSession from position i on
OldestFrom(pool, i, oldest, oldestTime) ==
  IF i > Len(pool) THEN oldest
  ELSE IF pool[i].state = "idle" /\ pool[i].lastActivity < oldestTime
       THEN OldestFrom(pool, i + 1, pool[i].owner, pool[i].lastActivity)
       ELSE OldestFrom(pool, i + 1, oldest, oldestTime)

\* SessionManager.findOldestIdleSession: owner of the victim, 0 for null
FindOldestSessionAnyState(pool, now0) == IF Len(pool) > 0 THEN pool[1].owner ELSE 0
FindOldestIdleSession(pool, now0) == OldestFrom(pool, 1, 0, now0)

\* Date.now() advances
Tick ==
  /\ now < MaxTime
  /\ now' = now + 1
  /\ UNCHANGED <<sessions, jobPc, poolFrame>>

\* SessionManager.createSession up to `await getOrchestrator`: capacity
\* check, eviction of the oldest idle session or the capacity error
CreateSessionCheck(o) ==
  /\ jobPc[o] = "idle"
  /\ ~HasSession(sessions, o)
  /\ IF Len(sessions) >= maxSessions
     THEN LET oldestIdle == FindOldestIdleSession(sessions, now)
          IN IF oldestIdle # 0
             THEN /\ sessions' = EndSession(sessions, oldestIdle)
                  /\ jobPc' = [jobPc EXCEPT ![o] = "creating"]
             ELSE /\ jobPc' = [jobPc EXCEPT ![o] = "capacityError"]
                  /\ UNCHANGED sessions
     ELSE /\ jobPc' = [jobPc EXCEPT ![o] = "creating"]
          /\ UNCHANGED sessions
  /\ UNCHANGED <<now, poolFrame>>

\* SessionManager.createSession after the await: sessions.set(owner, session)
CreateSessionSet(o) ==
  /\ jobPc[o] = "creating"
  /\ sessions' = SetSession(sessions, NewSession(o, ("claude"), now))
  /\ jobPc' = [jobPc EXCEPT ![o] = "created"]
  /\ UNCHANGED <<now, poolFrame>>

\* processOneMessage calls session.execute on the session it created or found
PoolExecute(o) ==
  /\ \/ jobPc[o] = "created"
     \/ jobPc[o] = "idle" /\ HasSession(sessions, o)
  /\ sessions' = IF HasSession(sessions, o)
                 THEN SetSession(sessions, [GetSession(sessions, o) EXCEPT
                                              !.state = "executing",
                                              !.lastActivity = now,
                                              !.loaded = TRUE])
                 ELSE sessions
  /\ jobPc' = [jobPc EXCEPT ![o] = "running"]
  /\ UNCHANGED <<now, poolFrame>>

\* the agent process ends (it runs for longer than one clock reading):
\* finish() puts the Session object back to idle
PoolFinish(o) ==
  /\ jobPc[o] = "running"
  /\ HasSession(sessions, o) => now > GetSession(sessions, o).lastActivity
  /\ sessions' = IF HasSession(sessions, o)
                 THEN SetSession(sessions, [GetSession(sessions, o) EXCEPT !.state = "idle"])
                 ELSE sessions
  /\ jobPc' = [jobPc EXCEPT ![o] = "idle"]
  /\ UNCHANGED <<now, poolFrame>>

\* processOneMessage throws between createSession and execute (a media
\* file over the limit): the new Session stays in the pool, idle
JobFailsBeforeExecute(o) ==
  /\ jobPc[o] = "created"
  /\ jobPc' = [jobPc EXCEPT ![o] = "idle"]
  /\ UNCHANGED <<sessions, now, poolFrame>>

\* the capacity error of createSession reaches runQueue's error reply
CapacityErrorReply(o) ==
  /\ jobPc[o] = "capacityError"
  /\ jobPc' = [jobPc EXCEPT ![o] = "idle"]
  /\ UNCHANGED <<sessions, now, poolFrame>>

\* Session.isTimedOut(timeoutMinutes)
IsTimedOut(sess, now0) == now0 - sess.lastActivity > timeoutMinutes

\* SessionManager.cleanupTimedOutSessions, run by the sweep interval
CleanupTimedOutSessions ==
  /\ \E i \in 1..Len(sessions) : IsTimedOut(sessions[i], now)
  /\ sessions' = SelectSeq(sessions, LAMBDA x : ~IsTimedOut(x, now))
  /\ UNCHANGED <<jobPc, now, poolFrame>>

PoolNext ==
  \/ Tick
  \/ \E o \in Owners : CreateSessionCheck(o)
  \/ \E o \in Owners : CreateSessionSet(o)
  \/ \E o \in Owners : PoolExecute(o)
  \/ \E o \in Owners : PoolFinish(o)
  \/ \E o \in Owners : JobFailsBeforeExecute(o)
  \/ \E o \in Owners : CapacityErrorReply(o)
  \/ CleanupTimedOutSessions

\* ------------------------------------------------------------------------
\* System notes of a chat (MessageHandler.addSystemNote /
\* consumeSystemNotes, SwitchHandler.performSwitch)
\* ------------------------------------------------------------------------
MaxNotes == 11         \* notes added in one behaviour
MaxPrompts == 2        \* prompts built in one behaviour

maxSystemNotes == 10   \* `if (queue.length > 10)` of addSystemNote

\* addSystemNote: push, then keep the newest maxSystemNotes notes
AddSystemNote(queue, note) ==
  LET q == Append(queue, note)
  IN IF Len(q) > maxSystemNotes
     THEN SubSeq(q, Len(q) - maxSystemNotes + 1, Len(q))
     ELSE q

\* consumeSystemNotes: the notes returned and the queue left behind
ConsumeSystemNotesKeep(queue) == [notes |-> queue, rest |-> queue]
ConsumeSystemNotes(queue) == [notes |-> queue, rest |-> << >>]

NoteIds(q) == {q[i].id : i \in 1..Len(q)}

\* performSwitch, reached by `!!switch` through the queue bypass: the
\* handoff note (never empty) is added to the chat's notes
HandoffNote ==
  /\ noteSeq < MaxNotes
  /\ noteSeq' = noteSeq + 1
  /\ systemNotes' = AddSystemNote(systemNotes, [id |-> noteSeq + 1, handoff |-> TRUE])
  /\ owed' = owed \cup {noteSeq + 1}
  /\ UNCHANGED <<notePc, prompt, promptSeq, lastDelivered>>

\* onComplete of a background task: the result text is added as a note
TaskResultNote ==
  /\ noteSeq < MaxNotes
  /\ noteSeq' = noteSeq + 1
  /\ systemNotes' = AddSystemNote(systemNotes, [id |-> noteSeq + 1, handoff |-> FALSE])
  /\ UNCHANGED <<notePc, prompt, promptSeq, owed, lastDelivered>>

\* runQueue pops a job of the chat: processOneMessage up to the media
\* handling
NoteJobBegin ==
  /\ notePc = "idle"
  /\ notePc' = "preparing"
  /\ UNCHANGED <<systemNotes, noteSeq, prompt, promptSeq, owed, lastDelivered>>

\* finalizeSavedMedia of a job with media: the "Dosya kaydedildi" note
SavedMediaNote ==
  /\ notePc = "preparing"
  /\ noteSeq < MaxNotes
  /\ noteSeq' = noteSeq + 1
  /\ systemNotes' = AddSystemNote(systemNotes, [id |-> noteSeq + 1, handoff |-> FALSE])
  /\ UNCHANGED <<notePc, prompt, promptSeq, owed, lastDelivered>>

\* processOneMessage throws before the prompt is built (media over the
\* limit, capacity error)
NoteJobThrows ==
  /\ notePc = "preparing"
  /\ notePc' = "idle"
  /\ UNCHANGED <<systemNotes, noteSeq, prompt, promptSeq, owed, lastDelivered>>

\* processOneMessage: consumeSystemNotes, formatSystemNotes into the prompt,
\* session.execute(prompt)
BuildPrompt ==
  /\ notePc = "preparing"
  /\ promptSeq < MaxPrompts
  /\ prompt' = ConsumeSystemNotes(systemNotes).notes
  /\ systemNotes' = ConsumeSystemNotes(systemNotes).rest
  /\ promptSeq' = promptSeq + 1
  /\ owed' = {}
  /\ lastDelivered' = IF systemNotes = << >> THEN lastDelivered
                       ELSE systemNotes[Len(systemNotes)].id
  /\ notePc' = "executing"
  /\ UNCHANGED noteSeq

\* execute returns and runQueue replies; for an empty or missing answer it
\* adds its retry hint as a note
NoteJobEnd(emptyAnswer) ==
  /\ notePc = "executing"
  /\ notePc' = "idle"
  /\ prompt' = << >>
  /\ IF emptyAnswer
     THEN /\ noteSeq < MaxNotes
          /\ noteSeq' = noteSeq + 1
          /\ systemNotes' = AddSystemNote(systemNotes,
                                [id |-> noteSeq + 1, handoff |-> FALSE])
     ELSE UNCHANGED <<systemNotes, noteSeq>>
  /\ UNCHANGED <<promptSeq, owed, lastDelivered>>

NoteNext ==
  \/ HandoffNote
  \/ TaskResultNote
  \/ NoteJobBegin
  \/ SavedMediaNote
  \/ NoteJobThrows
  \/ BuildPrompt
  \/ \E emptyAnswer \in BOOLEAN : NoteJobEnd(emptyAnswer)

\* ------------------------------------------------------------------------
\* Background tasks (BackgroundTaskManager, MessageHandler.startBackgroundTask)
\* ------------------------------------------------------------------------
MaxTasks == 2          \* tasks started in one behaviour
MaxRestarts == 1       \* restarts of the relay process in one behaviour
maxTasks == 1          \* per-owner cap of running tasks (MAX_BG_TASKS_PER_USER)

TaskIds == 1..MaxTasks
NoTask == [owner |-> "none", status |-> "none"]

\* saveTasks: the file holds the entries of this.tasks at the time of the call
SaveTasks(ts) == [t \in TaskIds |-> ts[t].status]

\* getActiveTaskCount(owner)
ActiveTaskCount(o) ==
  Cardinality({t \in TaskIds : tasks[t].owner = o /\ tasks[t].status = "running"})

\* startBackgroundTask: `if (activeCount >= maxTasks) return null;`
AtCapOffByOne(o) == ActiveTaskCount(o) > maxTasks
AtCap(o) == ActiveTaskCount(o) >= maxTasks

\* finalize: `if (finished) return;`
FinalizeGuardNone(t) == TRUE
FinalizeGuard(t) == ~finished[t]

\* finalize({status}) up to `await this.saveTasks()`
Finalize(t, status) ==
  IF FinalizeGuard(t)
  THEN /\ finished' = [finished EXCEPT ![t] = TRUE]
       /\ handle' = [handle EXCEPT ![t] = FALSE]
       /\ tasks' = [tasks EXCEPT ![t].status = status]
       /\ stored' = SaveTasks([tasks EXCEPT ![t].status = status])
       /\ pendingNotify' = [pendingNotify EXCEPT ![t] = @ + 1]
  ELSE UNCHANGED <<finished, handle, tasks, stored, pendingNotify>>

\* startBackgroundTask(owner): the cap check, then startTask up to its
\* `await this.saveTasks()` (the record is in this.tasks and in the file)
StartBackgroundTask(o) ==
  IF AtCap(o)
  THEN /\ lastStart' = [owner |-> o, result |-> "null"]
       /\ UNCHANGED <<tasks, stored, proc, handle, finished, pendingNotify,
                      completions, errored, timerArmed, nextTask, restarts>>
  ELSE /\ nextTask < MaxTasks
       /\ LET t == nextTask + 1
              ts == [tasks EXCEPT ![t] = [owner |-> o, status |-> "running"]]
          IN /\ tasks' = ts
             /\ stored' = SaveTasks(ts)
             /\ proc' = [proc EXCEPT ![t] = "pending"]
       /\ nextTask' = nextTask + 1
       /\ lastStart' = [owner |-> o, result |-> "task"]
       /\ UNCHANGED <<handle, finished, pendingNotify, completions, errored,
                      timerArmed, restarts>>

\* startTask after the await: start<Kind>Task spawns the agent, sets
\* task.process, registers the handlers and arms the timeout timer
SpawnTask(t) ==
  /\ proc[t] = "pending"
  /\ proc' = [proc EXCEPT ![t] = "alive"]
  /\ handle' = [handle EXCEPT ![t] = TRUE]
  /\ timerArmed' = [timerArmed EXCEPT ![t] = TRUE]
  /\ UNCHANGED <<tasks, stored, finished, pendingNotify, completions, errored,
                 nextTask, lastStart, restarts>>

\* proc.on('close'): exit code 0 without an agent error, or anything else
ProcClose(t, ok) ==
  /\ proc[t] \in {"alive", "killed"}
  /\ proc' = [proc EXCEPT ![t] = "closed"]
  /\ Finalize(t, IF ok THEN "completed" ELSE "failed")
  /\ UNCHANGED <<completions, errored, timerArmed, nextTask, lastStart, restarts>>

\* proc.on('error'): the spawn failed or the process could not be signalled
ProcError(t) ==
  /\ proc[t] \in {"alive", "killed"}
  /\ ~errored[t]
  /\ errored' = [errored EXCEPT ![t] = TRUE]
  /\ Finalize(t, "failed")
  /\ UNCHANGED <<proc, completions, timerArmed, nextTask, lastStart, restarts>>

\* the setTimeout callback: `if (task.process) { kill; finalize(timeout) }`
TimerFires(t) ==
  /\ timerArmed[t]
  /\ timerArmed' = [timerArmed EXCEPT ![t] = FALSE]
  /\ IF handle[t]
     THEN /\ proc' = [proc EXCEPT ![t] = IF @ = "alive" THEN "killed" ELSE @]
          /\ Finalize(t, "timeout")
     ELSE UNCHANGED <<proc, finished, handle, tasks, stored, pendingNotify>>
  /\ UNCHANGED <<completions, errored, nextTask, lastStart, restarts>>

\* finalize after `await this.saveTasks()`: onComplete(task), emit
OnComplete(t) ==
  /\ pendingNotify[t] > 0
  /\ pendingNotify' = [pendingNotify EXCEPT ![t] = @ - 1]
  /\ completions' = [completions EXCEPT ![t] = @ + 1]
  /\ UNCHANGED <<tasks, stored, proc, handle, finished, errored, timerArmed,
                 nextTask, lastStart, restarts>>

\* cancelTask(taskId): kill the process if there is one, status = cancelled,
\* saveTasks()
CancelTask(t) ==
  /\ tasks[t] # NoTask
  /\ proc' = [proc EXCEPT ![t] = IF handle[t] /\ @ = "alive" THEN "killed" ELSE @]
  /\ tasks' = [tasks EXCEPT ![t].status = "cancelled"]
  /\ stored' = SaveTasks([tasks EXCEPT ![t].status = "cancelled"])
  /\ UNCHANGED <<handle, finished, pendingNotify, completions, errored,
                 timerArmed, nextTask, lastStart, restarts>>

\* The relay process is restarted: the module is loaded again
\* (`new BackgroundTaskManager()`: an empty this.tasks), the timers and the
\* handles of the old process are gone, the file is as it was left.
\* WhatsAppCodexApp.start() does not call loadTasks.
Restart ==
  /\ restarts < MaxRestarts
  /\ restarts' = restarts + 1
  /\ tasks' = [t \in TaskIds |-> NoTask]
  /\ proc' = [t \in TaskIds |-> IF proc[t] = "none" THEN "none" ELSE "gone"]
  /\ handle' = [t \in TaskIds |-> FALSE]
  /\ finished' = [t \in TaskIds |-> FALSE]
  /\ pendingNotify' = [t \in TaskIds |-> 0]
  /\ completions' = [t \in TaskIds |-> 0]
  /\ errored' = [t \in TaskIds |-> FALSE]
  /\ timerArmed' = [t \in TaskIds |-> FALSE]
  /\ lastStart' = ([owner |-> "none", result |-> "none"])
  /\ UNCHANGED <<stored, nextTask>>

TaskNext ==
  \/ \E o \in ({"u1", "u2"}) : StartBackgroundTask(o)
  \/ \E t \in TaskIds : SpawnTask(t)
  \/ \E t \in TaskIds : \E ok \in BOOLEAN : ProcClose(t, ok)
  \/ \E t \in TaskIds : ProcError(t)
  \/ \E t \in TaskIds : TimerFires(t)
  \/ \E t \in TaskIds : OnComplete(t)

\* the same with the manager's cancelTask and restarts of the relay process
TaskControlNext ==
  \/ TaskNext
  \/ \E t \in TaskIds : CancelTask(t)
  \/ Restart

\* ------------------------------------------------------------------------
\* Foreground reply and outbox activity (processOneMessage, hasOutboxActivity)
\* ------------------------------------------------------------------------
MaxJobs == 2           \* foreground executions in one behaviour

NoRequest == [head |-> 0, tail |-> 0]    \* lastExecutionMeta absent (Claude, Gemini)

\* sanitizeToken(requestId, 24) in the file name and the same replace +
\* slice(0, 24) in hasOutboxActivity
Token(r) == r.head

\* the name of a file written by writeOutboxMessage holds the token of the
\* envelope's requestId, `noreq` when it has none; the names of its
\* processing, processed and failed forms keep it
NameHasToken(f, token) ==
  /\ f.id \in DOMAIN reqOf
  /\ reqOf[f.id] # NoRequest
  /\ Token(reqOf[f.id]) = token

\* hasOutboxActivity(requestId): readdir of pending/ and of processed/,
\* `files.some(f => f.includes(token))`.  A file only moves from pending/ to
\* processed/ and pending/ is read first, so the two reads see what one
\* read of both would.
HasOutboxActivityAnyDir(r) ==
  /\ r # NoRequest
  /\ \E f \in pendingDir \cup processedDir \cup failedDir : NameHasToken(f, Token(r))
HasOutboxActivity(r) ==
  /\ r # NoRequest
  /\ \E f \in pendingDir \cup processedDir : NameHasToken(f, Token(r))

\* session.execute starts: CodexProcess.execute draws a new request id,
\* the other Session classes set no lastExecutionMeta
ExecuteBegins(r) ==
  /\ fgPc = "idle"
  /\ jobsRun < MaxJobs
  \* the request ids used by executions and envelopes so far
  /\ r = NoRequest \/ r \notin ({reqOf[i] : i \in DOMAIN reqOf} \cup {fgReq})
  /\ fgPc' = "executing"
  /\ fgReq' = r
  /\ fgPlan' = "none"
  /\ fgReply' = "none"
  /\ jobsRun' = jobsRun + 1
  /\ UNCHANGED <<reqOf, outboxVars>>

\* the agent of the running execution, or any other producer, calls
\* writeOutboxMessage; the agent's environment carries WA_REQUEST_ID
ProducerWrites(valid, byAgent) ==
  /\ byAgent => fgPc = "executing"
  /\ WriteOutboxMessage(valid)
  \* createOutboxRequestId('chat'): `chat-<epochMs>-<10 hex digits>`; head is
  \* what the first 24 characters keep (epochMs and 5 hex digits), tail the rest
  /\ \E r \in ([head : 1..2, tail : 1..2]) \cup {NoRequest} :
       \* the request ids used by executions and envelopes so far
       /\ IF byAgent THEN r = fgReq ELSE (r = NoRequest \/ r \notin ({reqOf[i] : i \in DOMAIN reqOf} \cup {fgReq}))
       /\ reqOf' = [i \in DOMAIN reqOf \cup {writeSequence + 1} |->
                      IF i = writeSequence + 1 THEN r ELSE reqOf[i]]
  /\ UNCHANGED <<fgPc, fgReq, fgPlan, fgReply, jobsRun>>

\* execute resolves; parseBackgroundTaskPlan and startBackgroundTask: the
\* response holds no plan, a plan whose task was started (the task's
\* acknowledgement is returned at once), or a plan refused at the cap
ExecuteReturns(plan) ==
  /\ fgPc = "executing"
  /\ fgPlan' = plan
  /\ IF plan = "started"
     THEN fgPc' = "idle" /\ fgReply' = "sent"
     ELSE fgPc' = "returned" /\ fgReply' = fgReply
  /\ UNCHANGED <<fgReq, jobsRun, reqOf, outboxVars>>

\* `if (reqId && await this.hasOutboxActivity(reqId)) return NO_RESPONSE;`
\* otherwise the cleaned response or one of the fallback texts is returned
ReplyDecision ==
  /\ fgPc = "returned"
  /\ fgPc' = "idle"
  /\ fgReply' = IF HasOutboxActivity(fgReq) THEN "suppressed" ELSE "sent"
  /\ UNCHANGED <<fgReq, fgPlan, jobsRun, reqOf, outboxVars>>

\* the dispatcher of the relay process works on the outbox meanwhile
RelayDispatcher == "p1"

DispatcherStep ==
  /\ \/ ProcessPending(RelayDispatcher)
     \/ ClaimFile(RelayDispatcher)
     \/ \E ok \in BOOLEAN : SendMessage(RelayDispatcher, ok)
     \/ \E cbOk \in BOOLEAN : MarkProcessed(RelayDispatcher, cbOk)
     \/ RetryWrite(RelayDispatcher)
     \/ RetryUnlink(RelayDispatcher)
     \/ FailWrite(RelayDispatcher)
     \/ FailUnlink(RelayDispatcher)
  /\ UNCHANGED replyVars

ReplyNext ==
  \* createOutboxRequestId('chat'): `chat-<epochMs>-<10 hex digits>`; head is
  \* what the first 24 characters keep (epochMs and 5 hex digits), tail the rest
  \/ \E r \in ([head : 1..2, tail : 1..2]) \cup {NoRequest} : ExecuteBegins(r)
  \/ \E valid \in BOOLEAN : \E byAgent \in BOOLEAN : ProducerWrites(valid, byAgent)
  \/ \E plan \in {"none", "started", "refused"} : ExecuteReturns(plan)
  \/ ReplyDecision
  \/ DispatcherStep

\* ------------------------------------------------------------------------
\* Execution of one Session (CodexProcess.execute / runCodex / kill)
\* ------------------------------------------------------------------------
MaxRuns == 2           \* agent processes spawned by the Session in one behaviour

Runs == 1..MaxRuns

\* new Promise(resolve): only the first resolve of a run's promise counts
Resolve(res, r, value) ==
  IF res[r] = "pending" THEN [res EXCEPT ![r] = value] ELSE res

\* process.kill('SIGTERM') on the process this.process refers to
Signal(procs, ref) ==
  IF ref # 0 /\ procs[ref] = "running" THEN [procs EXCEPT ![ref] = "signalled"] ELSE procs

\* execute(): state = 'executing', then `await this.loadThreadState()`.
\* The queue runs one job of a chat at a time and a Session that was torn
\* down is no longer in the pool.
ExecuteCall ==
  /\ ~execActive
  /\ ~tornDown
  /\ nRuns < MaxRuns
  /\ execActive' = TRUE
  /\ sState' = "executing"
  /\ UNCHANGED <<procRef, runProc, runTimer, runResult, nRuns, tornDown>>

\* runCodex: spawn, this.process = the new process, handlers, setTimeout.
\* The first run of an execute, or a further one (thread primer, retry of a
\* low-value response) after the previous run has resolved.
RunStart ==
  /\ execActive
  /\ nRuns < MaxRuns
  /\ nRuns > 0 => runResult[nRuns] # "pending"
  /\ nRuns' = nRuns + 1
  /\ procRef' = nRuns + 1
  /\ runProc' = [runProc EXCEPT ![nRuns + 1] = "running"]
  /\ runTimer' = [runTimer EXCEPT ![nRuns + 1] = TRUE]
  /\ runResult' = [runResult EXCEPT ![nRuns + 1] = "pending"]
  /\ UNCHANGED <<sState, execActive, tornDown>>

\* the process of run r exits ('close'): finish(code)
RunClose(r, ok) ==
  /\ runProc[r] \in {"running", "signalled"}
  /\ ok => runProc[r] = "running"
  /\ runProc' = [runProc EXCEPT ![r] = "closed"]
  \* close handler of a process: finish() `this.state = 'idle'`
  /\ sState' = ("idle")
  /\ procRef' = 0
  /\ runResult' = Resolve(runResult, r, IF ok THEN "reply" ELSE "error")
  /\ UNCHANGED <<runTimer, execActive, nRuns, tornDown>>

\* the timer of run r fires, timeoutMs after the run started
RunTimeout(r) ==
  /\ runTimer[r]
  /\ runTimer' = [runTimer EXCEPT ![r] = FALSE]
  \* the timeout callback: `if (this.process) {...}`
  /\ IF (procRef # 0)
     THEN /\ runProc' = Signal(runProc, procRef)
          /\ procRef' = 0
          /\ sState' = "idle"
          /\ runResult' = Resolve(runResult, r, "timeout")
     ELSE UNCHANGED <<runProc, procRef, sState, runResult>>
  /\ UNCHANGED <<execActive, nRuns, tornDown>>

\* execute returns the response of its last run
ExecuteReturn ==
  /\ execActive
  /\ nRuns > 0
  /\ runResult[nRuns] \notin {"none", "pending"}
  /\ runProc[nRuns] # "none"
  /\ execActive' = FALSE
  /\ UNCHANGED <<sState, procRef, runProc, runTimer, runResult, nRuns, tornDown>>

\* kill(): teardown by endSession, killAllSessions or the sweep
Kill ==
  /\ ~tornDown
  /\ tornDown' = TRUE
  /\ runProc' = Signal(runProc, procRef)
  /\ procRef' = 0
  /\ sState' = "killed"
  /\ UNCHANGED <<runTimer, runResult, execActive, nRuns>>

ExecNext ==
  \/ ExecuteCall
  \/ RunStart
  \/ \E r \in Runs : \E ok \in BOOLEAN : RunClose(r, ok)
  \/ \E r \in Runs : RunTimeout(r)
  \/ ExecuteReturn
  \/ Kill

\* ------------------------------------------------------------------------
\* Terminal commands at the granularity of their awaits (TerminalHandler).
\* handleMessage runs a command at once, outside the queue of its chat, so
\* the commands of one owner interleave where they await file I/O.
\* ------------------------------------------------------------------------
MaxInFlight == 2       \* commands of the owner that are suspended at a time

Slots == 1..MaxInFlight

\* a name every object inherits from Object.prototype ("constructor",
\* "__proto__"): not a terminal key, but a key a command can name
ProtoKey == MaxTerminals + 1

NoCmd == [op |-> "none", key |-> 0, arg |-> "", snap |-> 0]

\* userData.sessions[key]: the own entry, else what the prototype chain has
SessionsGet(terms, key) ==
  IF key \in Keys THEN terms[key]
  \* what sessions[ProtoKey] evaluates to: an object with no orchestrator
  ELSE IF key = ProtoKey THEN ([orchestrator |-> "undefined", stateData |-> NoState]) ELSE NoTerm

\* `if (!userData?.sessions?.[key]) return 'Session bulunamadi'`: the owner
\* has a registry entry (ensureUserData, called by the first `!!new`) and
\* its sessions object yields something for the key
Found(terms, key) == counter > 0 /\ SessionsGet(terms, key) # NoTerm

\* handleDelete: no await between the tests and the delete
CmdDelete(key) ==
  /\ IF ~Found(terminals, key)
     THEN /\ cmdReply' = [op |-> "delete", key |-> key, text |-> "notFound"]
          /\ UNCHANGED terminals
     ELSE IF key = activeKey
     THEN /\ cmdReply' = [op |-> "delete", key |-> key, text |-> "refused"]
          /\ UNCHANGED terminals
     ELSE /\ cmdReply' = [op |-> "delete", key |-> key, text |-> "deleted"]
          \* `delete userData.sessions[key]`: removes an own entry only
          /\ terminals' = (IF key \in Keys THEN [terminals EXCEPT ![key] = NoTerm] ELSE terminals)
  /\ UNCHANGED <<activeKey, counter, prefs, store, sessions, jobPc, jobSess, now,
                 nextTok, lastHeld, switched, freshFor, inFlight>>

\* handleChange up to `await this.snapshotActiveSession(phoneNumber)`
\* (an unknown key or the active key only produces a reply)
CmdChangeBegin(s, key) ==
  /\ inFlight[s] = NoCmd
  /\ Found(terminals, key)
  /\ key # activeKey
  /\ inFlight' = [inFlight EXCEPT
                    ![s] = [op |-> "change", key |-> key, arg |-> "", snap |-> activeKey]]
  /\ UNCHANGED <<termVars, cmdReply>>

\* handleChange after the snapshot: `target = userData.sessions[key]`,
\* setOrchestrator(target.orchestrator) (a TypeError when the target was
\* deleted meanwhile; no change when the type is not a known one),
\* `userData.activeKey = key`
CmdChangeEnd(s) ==
  /\ inFlight[s].op = "change"
  /\ inFlight' = [inFlight EXCEPT ![s] = NoCmd]
  /\ LET c == inFlight[s]
         snap == SnapshotActiveSession(terminals, store, c.snap)
         target == SessionsGet(snap, c.key)
     IN /\ terminals' = snap
        /\ IF target = NoTerm
           THEN UNCHANGED <<activeKey, prefs, freshFor>>
           ELSE /\ activeKey' = c.key
                /\ prefs' = IF target.orchestrator \in Kinds
                             THEN target.orchestrator ELSE prefs
                /\ freshFor' = "none"
  /\ UNCHANGED <<counter, store, sessions, jobPc, jobSess, now, nextTok, lastHeld,
                 switched, cmdReply>>

\* handleNew up to `await this.snapshotActiveSession(phoneNumber)`
CmdNewBegin(s, arg) ==
  /\ inFlight[s] = NoCmd
  /\ counter < MaxTerminals
  /\ inFlight' = [inFlight EXCEPT
                    ![s] = [op |-> "new", key |-> 0, arg |-> arg, snap |-> activeKey]]
  /\ UNCHANGED <<termVars, cmdReply>>

\* handleNew after the snapshot: the new entry and activeKey, with no await
\* in between
CmdNewEnd(s) ==
  /\ inFlight[s].op = "new"
  /\ counter < MaxTerminals
  /\ inFlight' = [inFlight EXCEPT ![s] = NoCmd]
  /\ LET c == inFlight[s]
         snap == SnapshotActiveSession(terminals, store, c.snap)
         target == IF c.arg = "" THEN prefs ELSE c.arg
         key == counter + 1
     IN /\ terminals' = [snap EXCEPT
                            ![key] = [orchestrator |-> target, stateData |-> NoState]]
        /\ activeKey' = key
        /\ counter' = key
        /\ prefs' = target
  /\ freshFor' = "none"
  /\ UNCHANGED <<store, sessions, jobPc, jobSess, now, nextTok, lastHeld, switched,
                 cmdReply>>

RegistryNext ==
  \/ \E s \in Slots : \E arg \in Kinds \cup {""} : CmdNewBegin(s, arg)
  \/ \E s \in Slots : CmdNewEnd(s)
  \/ \E s \in Slots : \E key \in (Keys \cup {ProtoKey}) : CmdChangeBegin(s, key)
  \/ \E s \in Slots : CmdChangeEnd(s)
  \/ \E key \in (Keys \cup {ProtoKey}) : CmdDelete(key)

\* ------------------------------------------------------------------------
\* Validation of a payload by writeOutboxMessage (normalizeOutboxMessage)
\* ------------------------------------------------------------------------
MAX_TEXT_LENGTH == 12000

\* a property the payload does not have (undefined)
Absent == "<undefined>"

\* String(v).trim()
Trim(v) == IF v = " " THEN "" ELSE v

\* a ?? b
Nullish(a, b) == IF a # Absent THEN a ELSE b

\* v || ''
OrEmpty(v) == IF v = Absent THEN "" ELSE v

NormalizeOutboxType(value) ==
  \* String(v).toLowerCase()
  LET type == (IF (Trim(OrEmpty(value))) = "MEDIA" THEN "media" ELSE (Trim(OrEmpty(value))))
  IN IF type = "" THEN "progress"
     ELSE IF type \in ({"start", "progress", "final", "error", "info", "media"}) THEN type ELSE "info"

\* String(payload.chatId ?? payload.chat ?? fallbackChatId).trim()
ChatIdOf(payload, fallback) ==
  Trim(Nullish(payload.chatId, Nullish(payload.chat, fallback)))

\* `if (type === 'media' && !filePath) throw`
MediaNeedsFileNever(type, filePath) == FALSE
MediaNeedsFile(type, filePath) == type = "media" /\ filePath = ""

\* normalizeOutboxMessage: the error it throws, "none" when it returns
NormalizeOutboxMessage(payload, fallback) ==
  LET type == NormalizeOutboxType(payload.type)
      \* text.length after the trim
      \* a text of MAX_TEXT_LENGTH + 1 characters
      len == CASE payload.text \in {Absent, "", " "} -> 0
               [] payload.text = "<long text>" -> MAX_TEXT_LENGTH + 1
               [] OTHER -> 2
  IN IF ChatIdOf(payload, fallback) = "" THEN "chatId zorunlu"
     ELSE IF len = 0 /\ type # "media" THEN "text zorunlu"
     ELSE IF len > MAX_TEXT_LENGTH THEN "text cok uzun"
     \* payload.filePath ? String(payload.filePath).trim() : null
     ELSE IF MediaNeedsFile(type, (Trim(OrEmpty(payload.filePath)))) THEN "filePath zorunlu"
     ELSE "none"

\* writeOutboxMessage(payload, options): ensureOutboxDirs, normalize (which
\* may throw), then the temp file and its rename into pending/
WriteCall(payload, fallback) ==
  LET error == NormalizeOutboxMessage(payload, fallback)
  IN IF error # "none"
     THEN /\ wCall' = [payload |-> payload, fallback |-> fallback, outcome |-> error]
          /\ UNCHANGED outboxVars
     ELSE /\ WriteOutboxMessage(TRUE)
          /\ wCall' = [payload |-> payload, fallback |-> fallback,
                        outcome |-> "written"]

\* options.fallbackChatId || process.env.WA_CHAT_ID || ''
WriteNext ==
  \* the payloads a producer passes: chatId / chat, type, text (the first
  \* present of payload.text, payload.message, payload.content; "<long text>"
  \* is a text of MAX_TEXT_LENGTH + 1 characters) and filePath
  \E payload \in [chatId : {Absent, "", " ", "c1"},
                  chat : {Absent, "c2"},
                  type : {Absent, "media", "MEDIA", "note"},
                  text : {Absent, " ", "hi", "<long text>"},
                  filePath : {Absent, " ", "f"}] :
    \E fallback \in {"", "c9"} : WriteCall(payload, fallback)

\* ------------------------------------------------------------------------
\* Specifications
\* ------------------------------------------------------------------------
Init ==
  /\ (/\ pendingJobs = [c \in Chats |-> <<>>]
      /\ processingQueue = [c \in Chats |-> FALSE]
      /\ inbox = [c \in Chats |-> {}]
      /\ nextMsg = 0
      /\ runners = [c \in Chats |-> {}]
      /\ enqueued = [c \in Chats |-> <<>>]
      /\ started = [c \in Chats |-> <<>>]
      /\ threw = {}
      /\ errReplied = {})
  /\ (/\ pendingDir = {}
      /\ processedDir = {}
      /\ failedDir = {}
      /\ writeSequence = 0
      /\ disp = [d \in Dispatchers |->
                   [pc |-> "idle", files |-> <<>>, cur |-> NoFile, err |-> NoError]]
      /\ sendLog = {}
      /\ enoent = {})
  /\ (/\ activeKey = 0
      /\ counter = 0
      /\ terminals = [k \in Keys |-> NoTerm]
      /\ prefs = ("claude")
      /\ store = [k \in Kinds |-> NoState]
      /\ sessions = << >>
      /\ jobPc = [o \in Owners |-> "idle"]
      /\ jobSess = NoSession
      /\ now = 0
      /\ nextTok = 0
      /\ lastHeld = [k \in 0..MaxTerminals |-> NoToken]
      /\ switched = FALSE
      /\ freshFor = "none")
  /\ (/\ systemNotes = << >>
      /\ noteSeq = 0
      /\ notePc = "idle"
      /\ prompt = << >>
      /\ promptSeq = 0
      /\ owed = {}
      /\ lastDelivered = 0)
  /\ (/\ tasks = [t \in TaskIds |-> NoTask]
      /\ stored = [t \in TaskIds |-> "none"]
      /\ proc = [t \in TaskIds |-> "none"]
      /\ handle = [t \in TaskIds |-> FALSE]
      /\ finished = [t \in TaskIds |-> FALSE]
      /\ pendingNotify = [t \in TaskIds |-> 0]
      /\ completions = [t \in TaskIds |-> 0]
      /\ errored = [t \in TaskIds |-> FALSE]
      /\ timerArmed = [t \in TaskIds |-> FALSE]
      /\ nextTask = 0
      /\ lastStart = ([owner |-> "none", result |-> "none"])
      /\ restarts = 0)
  /\ (/\ fgPc = "idle"
      /\ fgReq = NoRequest
      /\ fgPlan = "none"
      /\ fgReply = "none"
      /\ jobsRun = 0
      /\ reqOf = << >>)
  /\ (/\ sState = "idle"
      /\ procRef = 0
      /\ runProc = [r \in Runs |-> "none"]
      /\ runTimer = [r \in Runs |-> FALSE]
      /\ runResult = [r \in Runs |-> "none"]
      /\ execActive = FALSE
      /\ nRuns = 0
      /\ tornDown = FALSE)
  /\ (/\ inFlight = [s \in Slots |-> NoCmd]
      /\ cmdReply = ([op |-> "none", key |-> 0, text |-> "none"]))
  /\ wCall = [payload |-> [chatId |-> Absent, chat |-> Absent, type |-> Absent,
                           text |-> Absent, filePath |-> Absent],
              fallback |-> "", outcome |-> "none"]
  /\ (/\ clock = 0
      /\ fileSeq = 0
      /\ written = <<>>)
  /\ flow = [kind |-> "none", pc |-> "idle", state |-> "idle",
             tokens |-> [k \in {"claude", "codex", "gemini"} |-> 0],
             loaded |-> [k \in {"claude", "codex", "gemini"} |-> FALSE],
             primed |-> FALSE, resumed |-> FALSE, user |-> "", runs |-> <<>>,
             ret |-> "<none>", n |-> 0]

SpecQueue == Init /\ [][QueueNext /\ UNCHANGED <<outboxVars, termVars, noteVars, taskVars, replyVars, execVars, regVars, writeVars, nameVars, flow>>]_vars

SpecOutbox == Init /\ [][OutboxNext /\ UNCHANGED <<queueVars, termVars, noteVars, taskVars, replyVars, execVars, regVars, writeVars, nameVars, flow>>]_vars

SpecTerm == Init /\ [][TermNext /\ UNCHANGED <<queueVars, outboxVars, noteVars, taskVars, replyVars, execVars, regVars, writeVars, nameVars, flow>>]_vars

SpecPool == Init /\ [][PoolNext /\ UNCHANGED <<queueVars, outboxVars, noteVars, taskVars, replyVars, execVars, regVars, writeVars, nameVars, flow>>]_vars

SpecNotes == Init /\ [][NoteNext /\ UNCHANGED <<queueVars, outboxVars, termVars, taskVars, replyVars, execVars, regVars, writeVars, nameVars, flow>>]_vars

SpecTasks == Init /\ [][TaskNext /\ UNCHANGED <<queueVars, outboxVars, termVars, noteVars, replyVars, execVars, regVars, writeVars, nameVars, flow>>]_vars

SpecReply == Init /\ [][ReplyNext /\ UNCHANGED <<queueVars, termVars, noteVars, taskVars, execVars, regVars, writeVars, nameVars, flow>>]_vars

SpecExec ==
  Init /\ [][ExecNext /\ UNCHANGED <<queueVars, outboxVars, termVars, noteVars, taskVars, replyVars, regVars, writeVars, nameVars, flow>>]_vars

SpecTaskControl ==
  Init /\ [][TaskControlNext /\ UNCHANGED <<queueVars, outboxVars, termVars, noteVars, replyVars, execVars, regVars, writeVars, nameVars, flow>>]_vars

SpecRegistry ==
  Init /\ [][RegistryNext /\ UNCHANGED <<queueVars, outboxVars, noteVars, taskVars,
                                          replyVars, execVars, writeVars, nameVars, flow>>]_vars

SpecWrite ==
  Init /\ [][WriteNext /\ UNCHANGED <<queueVars, termVars, noteVars, taskVars,
                                       replyVars, execVars, regVars, nameVars, flow>>]_vars

\* ------------------------------------------------------------------------
\* Claims about the dispatch queue
\* ------------------------------------------------------------------------

\* C1: for every chat at most one queued job is being processed at any
\* time: two runQueue activations never hold a job of the same chat at once.
C1_OneJobPerChat == \A c \in Chats : Cardinality(runners[c]) <= 1

\* a job is in progress while further messages of the chat are queued and
\* another is still in handleMessage
C1_Witness ==
  \E c \in Chats : /\ Cardinality(runners[c]) = 1
                   /\ Len(pendingJobs[c]) >= 1
                   /\ inbox[c] # {}

\* C2: jobs of a chat are popped for processing in exactly the order in
\* which they were pushed onto the chat's queue.
C2_Fifo ==
  \A c \in Chats :
    /\ Len(started[c]) <= Len(enqueued[c])
    /\ SubSeq(enqueued[c], 1, Len(started[c])) = started[c]

\* three jobs of one chat processed, pushed in an order other than arrival
C2_Witness ==
  \E c \in Chats : /\ Len(started[c]) >= 3
                   /\ started[c][1] > started[c][2]

\* C4: a job whose processing threw gets the error reply, and the run loop
\* never ends while jobs are left in the chat's queue.
C4_ErrorIsolated ==
  \A c \in Chats :
    /\ \A j \in ({(started[c])[i] : i \in 1..Len((started[c]))}) :
         (j \in threw /\ j \notin ({r.job : r \in runners[c]})) => j \in errReplied
    /\ runners[c] = {} => pendingJobs[c] = <<>>

\* a job threw, its error reply was made, and a job queued behind it was
\* then processed
C4_Witness ==
  \E c \in Chats :
    /\ Len(started[c]) >= 2
    /\ started[c][1] \in threw /\ started[c][1] \in errReplied
    /\ started[c][2] \notin ({r.job : r \in runners[c]})
    /\ runners[c] = {}

\* ------------------------------------------------------------------------
\* Claims about the outbox
\* ------------------------------------------------------------------------

\* C5: at every moment each envelope is present in exactly one of the
\* pending, processed and failed directories.
C5_ExactlyOneDir ==
  \A e \in {f.id : f \in pendingDir \cup processedDir} \cup {f.id : f \in failedDir} :
    Cardinality({dir \in {"pending", "processed", "failed"} :
                   \/ dir = "pending" /\ \E f \in pendingDir : f.id = e
                   \/ dir = "processed" /\ \E f \in processedDir : f.id = e
                   \/ dir = "failed" /\ \E f \in failedDir : f.id = e}) = 1

\* C6: for every pending file at most one dispatcher calls the transport;
\* and a dispatcher whose claiming rename fails because the source has
\* vanished goes on to the next listed file: that step sends nothing, writes
\* no failed record, changes no directory, and the loop is not aborted.
C6_RenameIsLock ==
  /\ [](\A s1 \in sendLog : \A s2 \in sendLog : s1.name = s2.name => s1.by = s2.by)
  /\ [][\A d \in Dispatchers :
          (/\ disp[d].pc = "claim"
           /\ disp'[d] # disp[d]
           /\ ~ \E f \in Claimable : f.name = Head(disp[d].files))
          => /\ sendLog' = sendLog /\ failedDir' = failedDir
             /\ pendingDir' = pendingDir /\ processedDir' = processedDir
             /\ disp'[d] = Advance(d)]_vars

\* two dispatchers listed the same file, one claimed and sent it, the other
\* got ENOENT
C6_Witness ==
  \E n \in enoent : \E s \in sendLog : s.name = n

\* ------------------------------------------------------------------------
\* Claims about the queue bypass, the terminals and the pool
\* ------------------------------------------------------------------------
TermSession == GetSession(sessions, TermOwner)

\* C3: a control command that bypasses the queue, handled while a job of the
\* same chat is executing, leaves the executing Session alone: it is not
\* killed, it stays in the pool and its state is unchanged.
C3_BypassLeavesBusySession ==
  [][(/\ jobPc[TermOwner] = "running"
      /\ HasSession(sessions, TermOwner)
      /\ TermSession.state = "executing"
      \* a step of a control command of the queue bypass: the only steps that
      \* change the orchestrator preference, the active terminal or the counter
      /\ (prefs' # prefs \/ activeKey' # activeKey \/ counter' # counter))
     => (/\ sessions' = sessions
         /\ jobSess' = jobSess)]_vars

\* C7: a terminal change while a Session is live changes only the registry
\* (and the orchestrator preference): the pool, the Session and the resume
\* stores are as before, and a pooled Session is only ever replaced by one
\* bound to another terminal in the step that dispatches the next job.
C7_ChangeIsLazy ==
  /\ [][(activeKey' # activeKey /\ counter' = counter)
        => (sessions' = sessions /\ jobSess' = jobSess /\ store' = store)]_vars
  /\ [][(/\ HasSession(sessions, TermOwner)
         /\ HasSession(sessions', TermOwner)
         /\ GetSession(sessions', TermOwner).terminalKey # TermSession.terminalKey)
        => (jobPc[TermOwner] = "idle" /\ jobPc'[TermOwner] = "running")]_vars

\* the active terminal was changed (it is not the newest one) while the
\* Session bound to the previous terminal is executing, and that Session is
\* still in the pool
C7_Witness ==
  /\ activeKey # 0
  /\ activeKey < counter
  /\ HasSession(sessions, TermOwner)
  /\ TermSession.terminalKey # 0
  /\ TermSession.terminalKey # activeKey
  /\ TermSession.state = "executing"

\* C8: the job dispatched after a terminal change from A to B (the live
\* Session is bound to A; the active terminal B is not the newest one, so
\* it was reached by a change) creates a Session
\* bound to B that resumes exactly the token of B's snapshot (none when B
\* has no snapshot), and that token was never issued to a Session of
\* another terminal.
C8_ResumesTargetSnapshot ==
  [][(/\ jobPc[TermOwner] = "idle" /\ jobPc'[TermOwner] = "running"
      /\ HasSession(sessions, TermOwner)
      /\ TermSession.terminalKey # 0
      /\ activeKey # 0
      /\ activeKey < counter
      /\ TermSession.terminalKey # activeKey)
     => LET s == GetSession(sessions', TermOwner)
        IN /\ s.terminalKey = activeKey
           /\ s.resumed = LoadToken(s.orchestratorType, terminals'[activeKey].stateData)
           /\ s.resumed # NoToken => s.resumed.term = activeKey]_vars

\* C9: terminal context survives a round trip.  As long as the orchestrator
\* is not switched, when the job dispatched after a change back to terminal
\* A tears down the Session of terminal B, the Session it creates for A
\* resumes exactly the token that A's Session last held.
C9_RoundTripKeepsToken ==
  [][(/\ ~switched
      /\ jobPc[TermOwner] = "idle" /\ jobPc'[TermOwner] = "running"
      /\ HasSession(sessions, TermOwner)
      /\ TermSession.terminalKey # 0
      /\ activeKey # 0
      /\ TermSession.terminalKey # activeKey
      /\ lastHeld[activeKey] # NoToken)
     => GetSession(sessions', TermOwner).resumed = lastHeld[activeKey]]_vars

IdleOwners(pool) == {pool[i].owner : i \in {j \in 1..Len(pool) : pool[j].state = "idle"}}

\* C10: createSession with the pool at its maximum and an idle session
\* present evicts exactly one session, the idle one with the oldest
\* lastActivity, and never one that is executing.
C10_EvictsOldestIdle ==
  [][\A o \in Owners :
       (/\ jobPc[o] = "idle" /\ jobPc'[o] \in {"creating", "capacityError"}
        /\ Len(sessions) >= maxSessions
        /\ IdleOwners(sessions) # {})
       => \E v \in IdleOwners(sessions) :
            /\ \A w \in IdleOwners(sessions) :
                 GetSession(sessions, v).lastActivity <= GetSession(sessions, w).lastActivity
            \* sessions.delete(owner)
            /\ sessions' = (SelectSeq(sessions, LAMBDA x : x.owner # v))]_vars

\* C11: createSession called with the pool at its maximum and no session
\* idle fails with the capacity error, and the pool with every Session in it
\* is exactly as before.
C11_CapacityErrorLeavesPool ==
  [][\A o \in Owners :
       (/\ jobPc[o] = "idle" /\ jobPc'[o] \in {"creating", "capacityError"}
        /\ Len(sessions) >= maxSessions
        /\ IdleOwners(sessions) = {})
       => (jobPc'[o] = "capacityError" /\ sessions' = sessions)]_vars

\* createSession has thrown the capacity error and the full pool holds
\* executing Sessions only
C11_Witness ==
  \E o \in Owners :
    /\ jobPc[o] = "capacityError"
    /\ Len(sessions) = maxSessions
    /\ \A i \in 1..Len(sessions) : sessions[i].state = "executing"

\* C12: while a job of a chat is in progress, a step that is not a step of
\* that job (a bypass command, a job of another chat, the sweep timer)
\* changes neither the chat's pool entry nor its terminal registry entry.
C12_OnlyOwnJobMutates ==
  [][\A o \in Owners :
       (jobPc[o] # "idle" /\ jobPc'[o] = jobPc[o])
       => /\ GetSession(sessions', o) = GetSession(sessions, o)
          /\ o = TermOwner => (/\ activeKey' = activeKey
                               /\ counter' = counter
                               /\ terminals' = terminals)]_vars

\* C13: an orchestrator switch to kind B leaves no stored resume token of B
\* for the owner, and the first job dispatched on B after the switch runs
\* a fresh invocation of B: its Session resumes no token.
C13_SwitchStartsFresh ==
  \* a step of an orchestrator switch: the preference changes, the registry's
  \* active terminal and counter do not
  /\ [][(prefs' # prefs /\ activeKey' = activeKey /\ counter' = counter) => store'[prefs'] = NoState]_vars
  /\ [][(/\ freshFor # "none"
         /\ jobPc[TermOwner] = "idle" /\ jobPc'[TermOwner] = "running"
         /\ GetSession(sessions', TermOwner).orchestratorType = freshFor)
        => GetSession(sessions', TermOwner).resumed = NoToken]_vars

\* ------------------------------------------------------------------------
\* Claims about the system notes
\* ------------------------------------------------------------------------

\* C14: the handoff note of an orchestrator switch is queued as a system
\* note; the prompt of the next job executed for the owner contains it; the
\* note is consumed by that prompt, so no later prompt contains it.
C14_HandoffNoteInNextPrompt ==
  /\ [][\A n \in owed' \ owed :
          \E i \in 1..Len(systemNotes') :
            systemNotes'[i].id = n /\ systemNotes'[i].handoff]_vars
  /\ [][promptSeq' # promptSeq => owed \subseteq NoteIds(prompt')]_vars
  /\ [](\A n \in NoteIds(systemNotes) : n > lastDelivered)

\* C14, amended: the same, for a handoff note that is followed by fewer
\* than maxSystemNotes further notes before the next prompt is built
\* (addSystemNote keeps the newest maxSystemNotes notes only).
C14_HandoffNoteUnlessOverflow ==
  /\ [][\A n \in owed' \ owed :
          \E i \in 1..Len(systemNotes') :
            systemNotes'[i].id = n /\ systemNotes'[i].handoff]_vars
  /\ [][promptSeq' # promptSeq
        => \A n \in owed : noteSeq - n < maxSystemNotes => n \in NoteIds(prompt')]_vars
  /\ [](\A n \in NoteIds(systemNotes) : n > lastDelivered)

\* a job is executing a prompt that contains a handoff note together with
\* another note, and the chat's note queue is empty again
C14_Witness ==
  /\ notePc = "executing"
  /\ \E i \in 1..Len(prompt) : prompt[i].handoff
  /\ \E i \in 1..Len(prompt) : ~prompt[i].handoff
  /\ systemNotes = << >>
  /\ owed = {}

C16_StatusOnlyLeavesRunning ==
  [][restarts' = restarts =>
       \A t \in TaskIds :
         tasks'[t].status # tasks[t].status =>
           \/ tasks[t].status = "none" /\ tasks'[t].status = "running"
           \/ /\ tasks[t].status = "running"
              /\ tasks'[t].status \in {"completed", "failed", "timeout", "cancelled"}]_vars

\* C17: starting a background task for an owner whose number of running
\* tasks is at or above the per-owner cap returns null, persists no new task
\* record and spawns no process; so no owner ever has more running tasks
\* than the cap.
C17_AtCapStartsNothing ==
  /\ [][\A o \in ({"u1", "u2"}) :
          ActiveTaskCount(o) >= maxTasks =>
            /\ (lastStart' # lastStart /\ lastStart'.owner = o)
                 => lastStart'.result = "null"
            /\ \A t \in TaskIds :
                 tasks'[t].owner = o =>
                   /\ tasks[t].owner = o
                   /\ stored[t] = "none" => stored'[t] = "none"
                   /\ proc[t] = "none" => proc'[t] = "none"]_vars
  /\ [](\A o \in ({"u1", "u2"}) : ActiveTaskCount(o) <= maxTasks)

\* a start was refused for an owner whose tasks are all running at the cap
C17_Witness ==
  /\ lastStart.result = "null"
  /\ ActiveTaskCount(lastStart.owner) = maxTasks
  /\ \A t \in TaskIds : tasks[t].owner = lastStart.owner => proc[t] = "alive"
  /\ \E t \in TaskIds : tasks[t].owner = lastStart.owner

\* C18: after a restart of the relay process every task that was persisted
\* with status running is marked interrupted, so that after startup no task
\* is recorded as running without a live subprocess.
C18_RestartMarksInterrupted ==
  /\ [][restarts' # restarts =>
          \A t \in TaskIds :
            stored[t] = "running" =>
              /\ tasks'[t].status = "interrupted"
              \* loadTasks: the persisted entries, a running one marked interrupted
              /\ tasks' = [u \in TaskIds |->
                             IF stored[u] = "none" THEN tasks'[u]
                             ELSE [owner |-> tasks'[u].owner,
                                   status |-> IF stored[u] = "running"
                                              THEN "interrupted" ELSE stored[u]]]]_vars
  /\ [](\A t \in TaskIds :
          (stored[t] = "running" \/ tasks[t].status = "running")
            => proc[t] \in {"pending", "alive", "killed"})

\* ------------------------------------------------------------------------
\* Claims about the outbox retries
\* ------------------------------------------------------------------------
\* calls of the transport for envelope e (one per file name, see C6)
Sends(e) == {s \in sendLog : s.id = e}
FailedSends(e) == {s \in Sends(e) : ~s.ok}
SentIds == {s.id : s \in sendLog}

\* the dispatchers are done with envelope e: no file of it is left in
\* pending/ and no processFile holds it
Settled(e) ==
  /\ \A f \in pendingDir : f.id # e
  /\ \A d \in Dispatchers : disp[d].cur # NoFile => disp[d].cur.id # e

ProcessedOf(e) == {f \in processedDir : f.id = e}
FailedOf(e) == {f \in failedDir : f.id = e}

\* C19: with a transport that always fails, an envelope is sent exactly
\* maxRetries times in total and is then quarantined: afterwards there are
\* no files in pending and in processed, exactly one record in failed, and
\* that record's error field is populated.
C19_AlwaysFailingSentMaxRetries ==
  \A e \in SentIds :
    (Settled(e) /\ FailedSends(e) = Sends(e)) =>
      /\ Cardinality(Sends(e)) = maxRetries
      /\ ProcessedOf(e) = {}
      /\ Cardinality(FailedOf(e)) = 1
      /\ \A f \in FailedOf(e) : f.error \notin {"", NoError}

\* C19 (amended): with a transport that always fails, an envelope is sent
\* exactly maxRetries + 1 times in total (the first send and maxRetries
\* retries) and is then quarantined: no files in pending and in processed,
\* exactly one record in failed, its error field populated.
C19_AlwaysFailingSentMaxRetriesPlusOne ==
  \A e \in SentIds :
    (Settled(e) /\ FailedSends(e) = Sends(e)) =>
      /\ Cardinality(Sends(e)) = maxRetries + 1
      /\ ProcessedOf(e) = {}
      /\ Cardinality(FailedOf(e)) = 1
      /\ \A f \in FailedOf(e) : f.error \notin {"", NoError}

\* an envelope every send of which failed is quarantined, the last rejection
\* being an Error without a message
C19_Witness ==
  \E e \in SentIds :
    /\ Settled(e) /\ FailedSends(e) = Sends(e)
    /\ Cardinality(Sends(e)) = maxRetries + 1
    /\ \E f \in FailedOf(e) : f.error = "Error" /\ f.reason = "send"

\* C20: with a transport that fails exactly maxRetries - 1 times for an
\* envelope and then succeeds, the dispatcher passes end with exactly one
\* file in processed for that envelope and none in pending or failed.
C20_RetriedThenDelivered ==
  \A e \in SentIds :
    (/\ Settled(e)
     /\ Cardinality(FailedSends(e)) = maxRetries - 1
     /\ FailedSends(e) # Sends(e)) =>
      /\ Cardinality(ProcessedOf(e)) = 1
      /\ FailedOf(e) = {}

\* C21: writing one valid envelope and then running the dispatcher with a
\* transport that succeeds calls the transport exactly once for it and moves
\* exactly one file from pending to processed, leaving none in pending and
\* none in failed.
C21_RoundTripOnce ==
  \A e \in SentIds :
    (Settled(e) /\ FailedSends(e) = {}) =>
      /\ Cardinality(Sends(e)) = 1
      /\ Cardinality(ProcessedOf(e)) = 1
      /\ FailedOf(e) = {}

\* files of pending/ and records of failed/ that stem from a file that did
\* not parse
Malformed == {f \in pendingDir : ~f.valid}

\* C22: an envelope that fails parsing or validation is moved straight to
\* failed on the first pass that claims it: the transport is never called
\* for it and it is never re-queued into pending.
C22_MalformedStraightToFailed ==
  /\ [](\A f \in Malformed :
          /\ f.attempt = 0
          /\ \A s \in sendLog : s.name # f.name
          /\ \A d \in Dispatchers :
               disp[d].cur = f => disp[d].pc \in {"failWrite", "failUnlink"})
  /\ [][\A f \in Malformed :
          f \notin pendingDir' =>
            /\ \/ \E d \in Dispatchers : [f EXCEPT !.holder = d] \in pendingDir'
               \/ \E r \in failedDir : r.name = f.name /\ r.reason = "parse"
            /\ \A g \in pendingDir' \ pendingDir : g.name = f.name \/ g.id # f.id]_vars

\* a malformed file was claimed and has been quarantined without a send
C22_Witness ==
  /\ \E r \in failedDir : r.reason = "parse" /\ r.error = "parse"
  /\ pendingDir = {}
  /\ sendLog = {}

\* ------------------------------------------------------------------------
\* Claims about the foreground reply
\* ------------------------------------------------------------------------
\* processOneMessage returns for a job whose execute has resolved
ReplyStep == fgPc \in {"executing", "returned"} /\ fgPc' = "idle"

C24_TimeoutKillsAndResolves ==
  [][\A r \in Runs :
       (/\ runTimer[r] /\ ~runTimer'[r]
        /\ runProc[r] = "running" /\ runResult[r] = "pending" /\ ~tornDown)
       => /\ runProc'[r] = "signalled"
          /\ runResult'[r] = "timeout"
          /\ sState' = "idle"]_vars

PoolOwners(pool) == {pool[i].owner : i \in 1..Len(pool)}

\* C25: each periodic sweep kills and removes from the pool exactly the
\* Sessions that have been idle longer than the configured timeout: every
\* such Session is removed, and a Session that is executing at the time of
\* the sweep is not removed.
C25_SweepRemovesExactlyIdleTimedOut ==
  \* a step of the sweep: Sessions leave the pool and no job has moved
  [][(/\ jobPc' = jobPc
      /\ PoolOwners(sessions') # PoolOwners(sessions)
      /\ PoolOwners(sessions') \subseteq PoolOwners(sessions)) =>
       \* the Sessions of the pool that have been idle for longer than the timeout
       PoolOwners(sessions) \ PoolOwners(sessions') =
         {sessions[i].owner : i \in {j \in 1..Len(sessions) :
            sessions[j].state = "idle"
            /\ now - sessions[j].lastActivity > timeoutMinutes}}]_vars

\* C26: a Session's state only moves idle -> executing -> idle, or to killed
\* on explicit teardown, and killed is final.
C26_StateLifecycle ==
  \* the moves of Session.state the lifecycle allows
  [][/\ sState' # sState =>
          <<sState, sState'>> \in {<<"idle", "executing">>, <<"executing", "idle">>,
                                  <<"idle", "killed">>, <<"executing", "killed">>}
     /\ sState' = "killed" /\ sState # "killed" => tornDown'
     /\ sState = "killed" => sState' = "killed"]_vars

\* a job of chat c is executing: its runner is inside processOneMessage
Executing(c, m) == \E r \in runners[c] : r.job = m /\ r.pc = "process"

\* the queue state of one chat
ChatQueueState(c) == <<pendingJobs[c], processingQueue[c], runners[c], started[c]>>

\* C27: jobs of different chats are independent: a job of chat C1 that is
\* still executing never prevents a job of chat C2 from starting or
\* completing (a message of a chat with no active run is started when it is
\* enqueued, whatever the other chats do; a step of one chat leaves the queue
\* state of every other chat alone; a running job can always return), and
\* jobs of C1 and C2 can complete in either relative order.
C27_ChatsIndependent ==
  /\ [][\A c \in Chats : \A m \in (1..MaxMsgs) :
          (m \in inbox[c] /\ m \notin inbox'[c] /\ runners[c] = {})
          => Executing(c, m)']_vars
  /\ [][\E c \in Chats : \A d \in Chats \ {c} :
          ChatQueueState(d)' = ChatQueueState(d)]_vars
  /\ [](\A c \in Chats : \A r \in runners[c] :
          ENABLED (JobReturns(c, r) \/ ReplyHandled(c, r)))

\* a job of one chat that arrived first is still executing while a later job
\* of the other chat has started and completed
C27_Witness ==
  \E c \in Chats : \E d \in Chats \ {c} : \E m \in (1..MaxMsgs) : \E n \in (1..MaxMsgs) :
    /\ m < n
    /\ Executing(c, m)
    \* a job of chat c has completed: it was started and no runner holds it
    \* the jobs of chat c that were taken from the queue
    /\ (n \in ({started[d][i] : i \in 1..Len(started[d])}) /\ \A r \in runners[d] : r.job # n)

\* C28: the active terminal cannot be deleted: a delete command naming the
\* active terminal is refused and leaves the registry unchanged, so whenever
\* activeKey is set it names a terminal that exists in the owner's registry.
C28_ActiveTerminalExists ==
  /\ [][(cmdReply' # cmdReply /\ cmdReply'.text = "refused")
        => /\ cmdReply'.key = activeKey
           /\ UNCHANGED <<activeKey, counter, terminals>>]_vars
  /\ [][\A k \in Keys :
          (HasTerminal(terminals, k) /\ ~HasTerminal(terminals', k)) => k # activeKey]_vars
  /\ [](activeKey # 0 => HasTerminal(terminals, activeKey))

NoText(payload) == payload.text \in {Absent, "", " "}

IsMedia(payload) == payload.type \in {"media", "MEDIA"}

\* C29 as stated: write rejects an envelope with no chatId, an envelope
\* with no text whose type is not media, and a media envelope with no
\* filePath; a rejected write creates no file in pending.
C29_WriteRejectsIncomplete ==
  /\ []((/\ wCall.outcome # "none"
          \* the payload names no chat: neither chatId nor chat holds a non-blank id
          /\ \/ ((wCall.payload).chatId \in {Absent, "", " "} /\ (wCall.payload).chat \in {Absent, "", " "})
             \/ NoText(wCall.payload) /\ ~IsMedia(wCall.payload)
             \/ IsMedia(wCall.payload) /\ ((wCall.payload).filePath \in {Absent, "", " "}))
         => (wCall.outcome \notin {"none", "written"}))
  /\ [][wCall' # wCall /\ (wCall.outcome \notin {"none", "written"})' => pendingDir' = pendingDir]_vars

\* C29 as amended: write rejects an envelope for which the first present
\* of chatId, chat and the fallback chat id of the call is blank, an
\* envelope with no text whose type is not media, and a media envelope with
\* no filePath; a rejected write creates no file in pending.
C29_WriteRejectsIncompleteAfterFallback ==
  /\ []((/\ wCall.outcome # "none"
          /\ \/ ChatIdOf(wCall.payload, wCall.fallback) = ""
             \/ NoText(wCall.payload) /\ ~IsMedia(wCall.payload)
             \/ IsMedia(wCall.payload) /\ ((wCall.payload).filePath \in {Absent, "", " "}))
         => (wCall.outcome \notin {"none", "written"}))
  /\ [][wCall' # wCall /\ (wCall.outcome \notin {"none", "written"})' => pendingDir' = pendingDir]_vars

\* a media payload with a caption but no file path was rejected after an
\* envelope had been written, and pending/ holds that one file only
C29_Witness ==
  /\ wCall.outcome = "filePath zorunlu"
  /\ IsMedia(wCall.payload) /\ ~NoText(wCall.payload)
  /\ writeSequence = 1
  /\ Cardinality(pendingDir) = 1

\* C30: a terminal's saved snapshot only ever holds resume state produced by
\* a Session bound to that terminal: no sequence of terminal commands and
\* jobs stores one terminal's resume token in another terminal's slot.
\* (A token issued to a Session that was bound to no terminal is left aside.)
C30_SnapshotHoldsOwnToken ==
  \A k \in Keys :
    \* the resume token in the saved snapshot of terminal k
    (HasTerminal(terminals, k) /\ (terminals[k].stateData.tok).term # 0)
    \* the resume token in the saved snapshot of terminal k
    => (terminals[k].stateData.tok).term = k

\* C31: the number of sessions in the pool never exceeds the configured
\* maximum, including when createSession calls for different chats are in
\* progress at the same time.
C31_PoolNeverExceedsMax == Len(sessions) <= maxSessions

\* C32: a per-execution timeout only ever terminates the execution it was
\* armed for: a timer armed for an execution that has already finished never
\* kills the process of a later execution on the same Session.
C32_TimerKillsOwnRunOnly ==
  [][\A r \in Runs :
       (runTimer[r] /\ ~runTimer'[r])
       => \A q \in Runs :
            (runProc[q] = "running" /\ runProc'[q] = "signalled") => q = r]_vars

\* C33: an envelope whose send succeeded and whose file was moved to
\* processed is never re-queued into pending or sent again, whatever the
\* onDelivered callback does afterwards: no step adds a pending file or a
\* transport call for such an envelope.
C33_DeliveredNeverRequeued ==
  [][\A e \in {f.id : f \in processedDir} :
       (\E s \in Sends(e) : s.ok)
       => /\ \A f \in pendingDir' \ pendingDir : f.id # e
          /\ \A s \in sendLog' \ sendLog : s.id # e]_vars

\* ------------------------------------------------------------------------
\* Outbox with dispatcher processes that can exit, under fair polling
\* ------------------------------------------------------------------------
\* shutdown: process.exit while processPending is anywhere in its loop (or
\* the process is killed); the files it renamed to <name>.processing.<pid>
\* stay in pending/.  Some other dispatcher process keeps polling.
Stop(d) ==
  /\ disp[d].pc # "stopped"
  /\ \E o \in Dispatchers \ {d} : disp[o].pc # "stopped"
  /\ disp' = [disp EXCEPT ![d].pc = "stopped"]
  /\ UNCHANGED <<pendingDir, processedDir, failedDir, writeSequence, sendLog, enoent>>

OutboxLiveNext ==
  \/ OutboxNext
  \/ \E d \in Dispatchers : Stop(d)

\* the interval timer of a running dispatcher keeps firing processPending
\* and every awaited file operation and transport call settles
SpecOutboxLive ==
  /\ Init
  /\ [][OutboxLiveNext /\ UNCHANGED <<queueVars, termVars, noteVars, taskVars, replyVars, execVars, regVars, writeVars, nameVars, flow>>]_vars
  /\ \A d \in Dispatchers :
       WF_vars((\/ ProcessPending(d)
                \/ ClaimFile(d)
                \/ \E ok \in BOOLEAN : SendMessage(d, ok)
                \/ \E cbOk \in BOOLEAN : MarkProcessed(d, cbOk)
                \/ RetryWrite(d)
                \/ RetryUnlink(d)
                \/ FailWrite(d)
                \/ FailUnlink(d))
               /\ UNCHANGED <<queueVars, termVars, noteVars, taskVars, replyVars, execVars, regVars, writeVars, nameVars, flow>>)

\* C34: every envelope written to pending eventually ends in processed or in
\* failed as long as some dispatcher keeps polling, also when a dispatcher
\* process stops after it has renamed the file to its processing name; no
\* file stays under a processing name forever.
C34_EveryEnvelopeEnds ==
  /\ \A e \in 1..MaxWrites :
       (\E f \in pendingDir : f.id = e) ~> (ProcessedOf(e) # {} \/ FailedOf(e) # {})
  /\ \A e \in 1..MaxWrites :
       (\E f \in pendingDir : f.id = e /\ f.holder # "")
         ~> ~(\E f \in pendingDir : f.id = e /\ f.holder # "")

\* ------------------------------------------------------------------------
\* Dispatch queue under fair scheduling of the run loop
\* ------------------------------------------------------------------------
\* every await of a live runQueue settles: processOneMessage returns or
\* throws (an execution is bounded by the agent timeout) and replyToMessage
\* resolves or rejects
MaxLiveMsgs == 3      \* messages that arrive in one behaviour of SpecQueueLive

SpecQueueLive ==
  /\ Init
  /\ [][QueueNext /\ nextMsg' <= MaxLiveMsgs /\ UNCHANGED <<outboxVars, termVars, noteVars, taskVars, replyVars, execVars, regVars, writeVars, nameVars, flow>>]_vars
  /\ \A c \in Chats :
       WF_vars((\E r \in runners[c] :
                  \/ JobReturns(c, r)
                  \/ JobReturnsNoResponse(c, r)
                  \/ JobThrows(c, r)
                  \/ ReplyHandled(c, r))
               /\ UNCHANGED <<outboxVars, termVars, noteVars, taskVars, replyVars, execVars, regVars, writeVars, nameVars, flow>>)

C36_EnqueuedInArrivalOrder ==
  \A c \in Chats :
    /\ \A i \in 1..Len(enqueued[c]) : \A j \in 1..Len(enqueued[c]) :
         i < j => enqueued[c][i] < enqueued[c][j]
    /\ \A i \in 1..Len(started[c]) : \A j \in 1..Len(started[c]) :
         i < j => started[c][i] < started[c][j]

\* C37: when a send fails and the envelope's meta.attempt is below the retry
\* bound, exactly one copy with meta.attempt incremented by one is written
\* to pending and the processing file is removed; when it is not below the
\* bound, no copy is re-queued, a failed record (reason, error, envelope) is
\* written to failed and the processing file is removed.
C37_RetryOrFail ==
  [][\A d \in Dispatchers :
       LET cur == disp[d].cur
           sendFailed == \E s \in sendLog : s.name = cur.name /\ s.by = d /\ ~s.ok
       IN
         \* the catch of a rejected sendMessage enters retryOrFail
         /\ (disp[d].pc = "send" /\ disp'[d].pc \notin {"send", "mark"})
            => disp'[d].pc = IF cur.attempt < maxRetries THEN "retryWrite" ELSE "failWrite"
         /\ (sendFailed /\ disp[d].pc = "retryWrite" /\ disp'[d].pc # "retryWrite")
            => /\ cur.attempt < maxRetries
               /\ \E f \in pendingDir' \ pendingDir :
                    /\ pendingDir' = pendingDir \cup {f}
                    /\ f.id = cur.id /\ f.attempt = cur.attempt + 1
                    /\ f.holder = "" /\ f.valid
               /\ failedDir' = failedDir
               /\ disp'[d].pc = "retryUnlink"
         /\ (sendFailed /\ disp[d].pc = "failWrite" /\ disp'[d].pc # "failWrite")
            => /\ ~(cur.attempt < maxRetries)
               /\ pendingDir' = pendingDir
               /\ \E f \in failedDir' \ failedDir :
                    /\ failedDir' = failedDir \cup {f}
                    /\ f.id = cur.id /\ f.reason = "send"
                    /\ f.error \notin {"", NoError}
               /\ disp'[d].pc = "failUnlink"
         /\ (sendFailed /\ disp[d].pc \in {"retryUnlink", "failUnlink"}
               /\ disp'[d].pc # disp[d].pc)
            => /\ cur \in pendingDir
               /\ pendingDir' = pendingDir \ {cur}
               /\ failedDir' = failedDir]_vars

\* a dispatcher has written the failed record of a copy whose meta.attempt is
\* at the bound (a retry copy written after an earlier failed send) and is
\* about to remove its processing file
C37_Witness ==
  \E d \in Dispatchers :
    /\ disp[d].pc = "failUnlink"
    /\ disp[d].cur.attempt = maxRetries
    /\ \E s \in sendLog : s.name = disp[d].cur.name /\ s.by = d /\ ~s.ok
    /\ \E f \in failedDir : f.id = disp[d].cur.id /\ f.reason = "send"

\* ------------------------------------------------------------------------
\* File names of the outbox (writeOutboxMessage, names.sort())
\* ------------------------------------------------------------------------
MaxClock == 3         \* milliseconds the clock advances in one behaviour
MaxNamed == 3         \* files named in one behaviour

SEQ_MODULUS == 100000 \* `(writeSequence + 1) % 100000`

\* the clock of the process moves on
ClockTick ==
  /\ clock < MaxClock
  /\ clock' = clock + 1
  /\ UNCHANGED <<fileSeq, written>>

\* writeOutboxMessage: normalizeOutboxMessage keeps the payload's createdAt
\* (a retry copy `{...envelope, meta}` carries the createdAt of the first
\* write) and takes the current time only when the payload has none; the name
\* is `${ts}-${seq}-...` with ts = Date.parse(envelope.createdAt) and seq the
\* incremented sequence padded to five digits.  createdAt -1 stands for a
\* payload without createdAt.
NameFile(createdAt) ==
  /\ Len(written) < MaxNamed
  /\ LET ts == IF createdAt < 0 THEN clock ELSE createdAt
         seq == (fileSeq + 1) % SEQ_MODULUS
     IN /\ fileSeq' = seq
        /\ written' = Append(written, [ts |-> ts, seq |-> seq])
  /\ UNCHANGED clock

\* names.sort() of processPending: with ts of equal length (13 digits) and
\* seq padded, the string order of two names is the order of <ts, seq>
SortsBefore(a, b) == a.ts < b.ts \/ (a.ts = b.ts /\ a.seq < b.seq)

NameNext ==
  \/ ClockTick
  \/ \E createdAt \in -1..clock : NameFile(createdAt)

SpecNames ==
  Init /\ [][NameNext /\ UNCHANGED <<queueVars, outboxVars, termVars, noteVars, taskVars, replyVars, execVars, regVars, writeVars, flow>>]_vars

\* C38: of two envelopes written one after the other by the same process,
\* the earlier one's file name sorts before the later one's, so a dispatcher
\* pass that lists both sends them in write order.
C38_NamesMonotone ==
  \A i \in 1..Len(written) : \A j \in 1..Len(written) :
    i < j => SortsBefore(written[i], written[j])

\* ------------------------------------------------------------------------
\* Session.execute of the three Session kinds, run by run
\* (CodexProcess, ClaudeProcess, GeminiProcess: execute and finish)
\* ------------------------------------------------------------------------
MaxExecutes == 2      \* calls of execute in one behaviour

\* normalizeText: trim, lower case, runs of white space to one blank; on the
\* texts of this model
NormalizeText(t) ==
  CASE t = "OK" -> "ok"
    [] t = "Bunu  ozetle" -> "bunu ozetle"
    [] t = "Tamam." -> "tamam."
    [] t = "Ozet: uc madde" -> "ozet: uc madde"
    [] t = "Hata:" -> "hata:"
    [] t = "Sistem hatasi:" -> "sistem hatasi:"
    [] OTHER -> t

\* isLowValueResponse (the list also has anladim and tamamdir spelled with
\* a dotless i)
IsLowValueResponse(text) ==
  LET t == NormalizeText(text) IN
    \/ t = ""
    \/ t \in {"tamam", "tamam.", "ok", "ok.", "anladim", "peki", "peki.", "tamamdir"}

\* shouldRetry(userMessage, response); u.length of the user texts of this model
ShouldRetryAnyUser(userMessage, response) == IsLowValueResponse(response)
ShouldRetry(userMessage, response) ==
  LET u == NormalizeText(userMessage)
      length == CASE u = "bunu ozetle" -> 11 [] u = "naber" -> 5 [] u = "ok" -> 2
                  [] OTHER -> 0
  IN /\ IsLowValueResponse(response)
     /\ u # ""
     /\ u \notin {"tamam", "ok", "peki"}
     /\ length >= 6

\* execute(): lastActivity, state = 'executing', then the first call on a
\* Session object loads the owner's entry of the store file (`entry`: none,
\* a legacy Codex entry that is a bare id and counts as unprimed, or an entry
\* with primed = true; token 1 is the id such an entry holds), then the first
\* run: the thread primer of an unprimed resumed Codex thread, or the run of
\* the user message
Execute(kind, userMessage, entry) ==
  /\ flow.pc = "idle"
  /\ flow.n < MaxExecutes
  /\ LET token == IF ~flow.loaded[kind] /\ entry # "none" THEN 1 ELSE flow.tokens[kind]
         primed == IF kind # "codex" \/ flow.loaded[kind] THEN flow.primed
                   ELSE entry = "primed"
     IN flow' = [flow EXCEPT !.kind = kind, !.state = "executing", !.n = @ + 1,
                             !.loaded[kind] = TRUE, !.tokens[kind] = token,
                             !.primed = primed,
                             !.resumed = token # 0, !.user = userMessage,
                             !.runs = <<>>, !.ret = "<none>",
                             !.pc = IF kind = "codex" /\ token # 0 /\ ~primed
                                    THEN "primer" ELSE "main"]

\* the agent process of the current run ends: 'error' (it could not be
\* spawned) or 'close' with finish(code); then execute goes on to its next
\* run or returns.  `emit`: the run reported a session / thread id.
RunEnds(exit, out, emit) ==
  /\ flow.pc \in {"primer", "main", "retry"}
  /\ exit = "error" => (out = "" /\ ~emit)
  /\ LET k == flow.kind
         \* what the promise of the run resolves with: the 'error' handler, or
         \* finish(code) of the Session kind, `out` being the agent text collected
         result ==
           CASE exit = "error" -> "Sistem hatasi:"
             [] k = "codex" -> IF exit = "zero" THEN out ELSE "Hata:"
             [] k = "claude" -> IF out # "" THEN out
                                ELSE IF exit # "zero"
                                     THEN "Bir hata olustu. Lutfen tekrar dene."
                                     ELSE ""
             [] OTHER -> IF exit = "zero" /\ out # "" THEN out ELSE "Hata:"
         before == flow.tokens[k]
         \* claude: `if (sessionIdFromRun)`; codex, gemini: `if (!this.threadId && ...)`
         after == IF emit /\ (k = "claude" \/ before = 0) THEN flow.n + 1 ELSE before
         retry == /\ flow.pc = "main" /\ k = "codex" /\ flow.resumed
                  /\ ShouldRetry(flow.user, result)
         returns == flow.pc # "primer" /\ ~retry
         \* ClaudeProcess.execute: an empty response becomes a fixed text
         value == IF k = "claude" /\ result = ""
                  THEN "Cevap olusturulamadi. Lutfen tekrar dene." ELSE result
     IN flow' = [flow EXCEPT
                   !.state = "idle",
                   !.tokens[k] = after,
                   !.primed = IF k = "codex" /\ (flow.pc = "primer" \/ after # before)
                              THEN TRUE ELSE @,
                   !.runs = Append(@, [step |-> flow.pc, exit |-> exit, emit |-> emit,
                                       result |-> result, before |-> before,
                                       after |-> after]),
                   !.pc = IF flow.pc = "primer" THEN "main"
                          ELSE IF retry THEN "retry" ELSE "idle",
                   !.ret = IF returns THEN value ELSE @]

FlowNext ==
  \/ \E kind \in {"claude", "codex", "gemini"} :
       \E userMessage \in {"", "OK", "naber", "Bunu  ozetle"} :
         \E entry \in {"none", "legacy", "primed"} : Execute(kind, userMessage, entry)
  \/ \E exit \in {"zero", "nonzero", "error"} :
       \E out \in {"", "Tamam.", "Ozet: uc madde"} :
         \E emit \in BOOLEAN : RunEnds(exit, out, emit)

SpecFlow ==
  Init /\ [][FlowNext /\ UNCHANGED <<queueVars, outboxVars, termVars, noteVars, taskVars, replyVars, execVars, regVars, writeVars, nameVars>>]_vars

\* C39: when the agent process of the run that answers the user message
\* exits non-zero or crashes, execute returns an error reply, the Session is
\* back in idle, and the persisted resume token of that owner and
\* orchestrator kind is unchanged unless that run emitted a token.
C39_ProcessErrorSurfaced ==
  (flow.pc = "idle" /\ Len(flow.runs) > 0)
  => LET last == flow.runs[Len(flow.runs)] IN
       last.exit # "zero"
       => /\ flow.ret \in {"Hata:", "Sistem hatasi:", "Bir hata olustu. Lutfen tekrar dene."}
          /\ flow.state = "idle"
          /\ last.after # last.before => last.emit

====
